---------------------------- MODULE Spec2Model ----------------------------
(***************************************************************************)
(* Model of the event-processing core of Efficiency-Tracker:               *)
(*   src/src/processor.py  (AFKFilter, DataAggregator, view builders)      *)
(*   src/src/compare.py    (calculate_change)                              *)
(*                                                                         *)
(* The functions of the core are pure; each specification below draws the  *)
(* inputs of one group of functions event by event and then applies the    *)
(* functions in one step, as DataProcessor.process does.                   *)
(*                                                                         *)
(* Conventions                                                             *)
(*  - instants and durations are whole seconds (Python: datetime, float);  *)
(*  - a Python str is a sequence of one-character strings;                 *)
(*  - Python's None / a missing dict key is <<>>, a present value v is     *)
(*    <<v>> (None and Some below);                                         *)
(*  - a dict is the sequence of its (key, value) pairs in insertion order. *)
(***************************************************************************)
EXTENDS Integers, Sequences, FiniteSets

VARIABLES
    pc,                \* "input" while the caller assembles the arguments, "done" after
                       \* the call, "compared" after compare_stats, "again" after a
                       \* second call of process
    afk_events,        \* raw_data["afk"]
    window_events,     \* raw_data["window"]
    browser_events,    \* raw_data["browser"]
    editor_events,     \* raw_data["editor"]
    categories,        \* DataAggregator.categories
    work_domains,      \* DataProcessor.work_domains
    filtered_window,   \* afk_filter.filter_events(window_events)
    filtered_browser,  \* afk_filter.filter_events(browser_events)
    filtered_editor,   \* afk_filter.filter_events(editor_events)
    not_afk_seconds,   \* AFKFilter.get_total_active_seconds(afk_events)
    app_times,         \* aggregate_by_app(...)
    category_times,    \* aggregate_by_category(app_times)
    sessions,          \* build_session_view: the sessions list after the walk
    timeline_view,     \* build_timeline_view(...), before the join
    sessions_view,     \* build_session_view(...), before the join
    hourly_view,       \* build_hourly_switches(...), before the join
    website_view,      \* build_website_summary(...), before the join
    stats,             \* the dict process returns
    previous_period,   \* compare_stats argument previous_stats
    current_switches,  \* compare_stats local
    previous_switches, \* compare_stats local
    comparison,        \* the dict compare_stats returns
    current,           \* calculate_change argument
    previous,          \* calculate_change argument
    change             \* calculate_change result

vars == <<pc, afk_events, window_events, browser_events, editor_events,
          categories, work_domains, filtered_window, filtered_browser,
          filtered_editor, not_afk_seconds, app_times, category_times, sessions,
          timeline_view, sessions_view, hourly_view, website_view, stats,
          previous_period, current_switches, previous_switches, comparison,
          current, previous, change>>

---------------------------------------------------------------------------
(* Generic helpers                                                         *)

None == <<>>
Some(v) == <<v>>
IsNone(o) == o = <<>>
Get(o) == o[1]

Max(a, b) == IF a >= b THEN a ELSE b
Abs(a) == IF a >= 0 THEN a ELSE -a

RECURSIVE SumSeq(_)
SumSeq(s) == IF s = <<>> THEN 0 ELSE Head(s) + SumSeq(Tail(s))

\* the durations of a list of events
Durations(evs) == [i \in 1..Len(evs) |-> evs[i].duration]

\* the values of a dict
Values(d) == [i \in 1..Len(d) |-> d[i][2]]

---------------------------------------------------------------------------
(* Timestamps.  A raw timestamp string is one of                           *)
(*    "2024-01-01Thh:mm:ss"        [fmt |-> "naive", t |-> seconds]        *)
(*    "2024-01-01Thh:mm:ss+00:00"  [fmt |-> "utc",   t |-> seconds]        *)
(*    ""  (missing / malformed)    [fmt |-> "bad",   t |-> 0]              *)
(* with t the seconds since 2024-01-01T00:00:00 written in the string.     *)

Naive(t) == [fmt |-> "naive", t |-> t]
Utc(t) == [fmt |-> "utc", t |-> t]
BadTs == [fmt |-> "bad", t |-> 0]

\* the UTC offset of the local timezone, in seconds (dt_utc.astimezone())
LocalUtcOffset == 3600

\* parse_timestamp: a string with an offset is converted to local time and
\* made naive, a string without one is taken as local, anything else is None
parse_timestamp(ts) ==
    IF ts.fmt = "utc" THEN Some(ts.t + LocalUtcOffset)
    ELSE IF ts.fmt = "naive" THEN Some(ts.t)
    ELSE None

\* Python's str "<" on the raw strings: "" is least; the date-time prefix
\* has fixed width, so it orders by t; a string is less than its extension
RawLess(a, b) ==
    IF a.fmt = "bad" THEN b.fmt # "bad"
    ELSE IF b.fmt = "bad" THEN FALSE
    ELSE \/ a.t < b.t
         \/ a.t = b.t /\ a.fmt = "naive" /\ b.fmt = "utc"

\* sorted(events, key=lambda e: e.get("timestamp", "")): stable insertion
RECURSIVE InsertSorted(_, _)
InsertSorted(e, s) ==
    IF s = <<>> THEN <<e>>
    ELSE IF RawLess(e.timestamp, Head(s).timestamp) THEN <<e>> \o s
    ELSE <<Head(s)>> \o InsertSorted(e, Tail(s))

RECURSIVE SortFrom(_, _)
SortFrom(evs, acc) ==
    IF evs = <<>> THEN acc
    ELSE SortFrom(Tail(evs), InsertSorted(Head(evs), acc))

sorted_events(evs) == SortFrom(evs, <<>>)

\* faulty variant: the list is sorted in place (list.sort)
ArgumentAfterSorted_in_place(evs) == sorted_events(evs)

\* the list handed to sorted(), after the call: sorted() builds a new list
\* and leaves its argument in the order it had
ArgumentAfterSorted(evs) == evs

\* datetime.hour and strftime('%H:%M') of a parsed instant
HourOf(t) == (t \div 3600) % 24
MinuteOf(t) == (t \div 60) % 60
HHMM(t) == <<HourOf(t), MinuteOf(t)>>

---------------------------------------------------------------------------
(* AFKFilter                                                               *)

\* faulty variant: a not-afk event of duration 0 gives an (empty) period
RECURSIVE _get_not_afk_periods_any_duration(_)
_get_not_afk_periods_any_duration(afk) ==
    IF afk = <<>> THEN <<>>
    ELSE LET event == Head(afk)
             start == parse_timestamp(event.timestamp)
             rest  == _get_not_afk_periods_any_duration(Tail(afk))
         IN IF /\ event.status = Some("not-afk")
               /\ ~IsNone(start)
            THEN <<[start |-> Get(start), end |-> Get(start) + event.duration]>> \o rest
            ELSE rest

\* _get_not_afk_periods: (start, end) of every not-afk event whose
\* timestamp parses and whose duration is positive
RECURSIVE _get_not_afk_periods(_)
_get_not_afk_periods(afk) ==
    IF afk = <<>> THEN <<>>
    ELSE LET event == Head(afk)
             start == parse_timestamp(event.timestamp)
             rest  == _get_not_afk_periods(Tail(afk))
         IN IF /\ event.status = Some("not-afk")
               /\ ~IsNone(start)
               /\ event.duration > 0
            THEN <<[start |-> Get(start), end |-> Get(start) + event.duration]>> \o rest
            ELSE rest

\* faulty variant: closed intervals (an event touching an interval counts)
is_in_active_period_nonstrict(active_periods, event_time, event_duration) ==
    IF active_periods = <<>> THEN TRUE
    ELSE LET event_end == event_time + event_duration
         IN \E i \in 1..Len(active_periods) :
                /\ event_time <= active_periods[i].end
                /\ event_end >= active_periods[i].start

\* faulty variant: containment strictly inside an interval instead of overlap
is_in_active_period_strictly_inside(active_periods, event_time, event_duration) ==
    IF active_periods = <<>> THEN TRUE
    ELSE LET event_end == event_time + event_duration
         IN \E i \in 1..Len(active_periods) :
                /\ event_time > active_periods[i].start
                /\ event_end < active_periods[i].end

is_in_active_period(active_periods, event_time, event_duration) ==
    IF active_periods = <<>> THEN TRUE
    ELSE LET event_end == event_time + event_duration
         IN \E i \in 1..Len(active_periods) :
                /\ event_time < active_periods[i].end
                /\ event_end > active_periods[i].start

\* faulty variant: a kept event is cut to the first active period it
\* overlaps
RECURSIVE FilterLoop_clipped(_, _)
FilterLoop_clipped(active_periods, events) ==
    IF events = <<>> THEN <<>>
    ELSE LET event == Head(events)
             event_time == parse_timestamp(event.timestamp)
             rest == FilterLoop_clipped(active_periods, Tail(events))
         IN IF /\ ~IsNone(event_time)
               /\ is_in_active_period(active_periods, Get(event_time), event.duration)
            THEN LET t == Get(event_time)
                     p == active_periods[
                            CHOOSE i \in 1..Len(active_periods) :
                                /\ t < active_periods[i].end
                                /\ t + event.duration > active_periods[i].start]
                     from == Max(t, p.start)
                     to == IF t + event.duration < p.end
                           THEN t + event.duration ELSE p.end
                 IN <<[event EXCEPT !.duration = to - from]>> \o rest
            ELSE rest

RECURSIVE FilterLoop(_, _)
FilterLoop(active_periods, events) ==
    IF events = <<>> THEN <<>>
    ELSE LET event == Head(events)
             event_time == parse_timestamp(event.timestamp)
             rest == FilterLoop(active_periods, Tail(events))
         IN IF /\ ~IsNone(event_time)
               /\ is_in_active_period(active_periods, Get(event_time), event.duration)
            THEN <<event>> \o rest
            ELSE rest

\* faulty variant: no early return for an empty interval list
filter_events_always_loops(active_periods, events) ==
    FilterLoop(active_periods, events)

filter_events(active_periods, events) ==
    IF active_periods = <<>> THEN events
    ELSE FilterLoop(active_periods, events)

\* the list handed to filter_events, after the view builders have run on
\* what it returned: without active periods that is the list itself
ArgumentAfterViews(active_periods, events) ==
    IF active_periods = <<>> THEN ArgumentAfterSorted(events) ELSE events

RECURSIVE SumNotAfk(_)
SumNotAfk(afk) ==
    IF afk = <<>> THEN 0
    ELSE (IF Head(afk).status = Some("not-afk") THEN Head(afk).duration ELSE 0)
         + SumNotAfk(Tail(afk))

\* (sum of the variant get_total_active_seconds_from_periods)
RECURSIVE SumPeriods(_)
SumPeriods(ps) ==
    IF ps = <<>> THEN 0
    ELSE (Head(ps).end - Head(ps).start) + SumPeriods(Tail(ps))

\* faulty variant: the total derived from the active intervals
get_total_active_seconds_from_periods(afk) ==
    SumPeriods(_get_not_afk_periods(afk))

get_total_active_seconds(afk) == SumNotAfk(afk)

---------------------------------------------------------------------------
(* Strings: str.lower() and the "in" substring test                        *)

LowerChar(c) ==
    CASE c = "A" -> "a" [] c = "B" -> "b" [] c = "C" -> "c" [] c = "D" -> "d"
      [] c = "E" -> "e" [] c = "F" -> "f" [] c = "G" -> "g" [] c = "H" -> "h"
      [] c = "I" -> "i" [] c = "J" -> "j" [] c = "K" -> "k" [] c = "L" -> "l"
      [] c = "M" -> "m" [] c = "N" -> "n" [] c = "O" -> "o" [] c = "P" -> "p"
      [] c = "Q" -> "q" [] c = "R" -> "r" [] c = "S" -> "s" [] c = "T" -> "t"
      [] c = "U" -> "u" [] c = "V" -> "v" [] c = "W" -> "w" [] c = "X" -> "x"
      [] c = "Y" -> "y" [] c = "Z" -> "z" [] OTHER -> c

Lower(s) == [i \in 1..Len(s) |-> LowerChar(s[i])]

\* Python's  sub in s
Contains(sub, s) ==
    \E k \in 0..(Len(s) - Len(sub)) :
        \A i \in 1..Len(sub) : s[k + i] = sub[i]

---------------------------------------------------------------------------
(* dict helpers: a dict is a sequence of <<key, value>> in insertion order *)

HasKey(d, k) == \E i \in 1..Len(d) : d[i][1] = k

Lookup(d, k) == d[CHOOSE i \in 1..Len(d) : d[i][1] = k][2]

\* defaultdict(float): d[k] += v
AddTo(d, k, v) ==
    IF HasKey(d, k)
    THEN [i \in 1..Len(d) |-> IF d[i][1] = k THEN <<k, d[i][2] + v>> ELSE d[i]]
    ELSE Append(d, <<k, v>>)

---------------------------------------------------------------------------
(* DataAggregator                                                          *)

Unknown == <<"U", "n", "k", "n", "o", "w", "n">>
OtherCategory == "other"

\* event.get("data", {}).get("app", "Unknown")
AppOf(event) == IF IsNone(event.app) THEN Unknown ELSE Get(event.app)

\* the inner loop of categorize_app: some pattern of the list occurs in the
\* lowered application name
AnyPatternMatches(apps, app_lower) ==
    \E j \in 1..Len(apps) : Contains(Lower(apps[j]), app_lower)

\* faulty variant: the last matching category of the mapping wins
RECURSIVE CategorizeFrom_last_match(_, _)
CategorizeFrom_last_match(cats, app_lower) ==
    IF cats = <<>> THEN OtherCategory
    ELSE LET later == CategorizeFrom_last_match(Tail(cats), app_lower)
         IN IF later # OtherCategory THEN later
            ELSE IF AnyPatternMatches(Head(cats)[2], app_lower) THEN Head(cats)[1]
            ELSE OtherCategory

\* categorize_app: cats is the mapping, a sequence of <<category, patterns>>
RECURSIVE CategorizeFrom(_, _)
CategorizeFrom(cats, app_lower) ==
    IF cats = <<>> THEN OtherCategory
    ELSE IF AnyPatternMatches(Head(cats)[2], app_lower) THEN Head(cats)[1]
    ELSE CategorizeFrom(Tail(cats), app_lower)

categorize_app(cats, app_name) == CategorizeFrom(cats, Lower(app_name))

RECURSIVE AggregateApps(_, _)
AggregateApps(events, acc) ==
    IF events = <<>> THEN acc
    ELSE AggregateApps(Tail(events),
                       AddTo(acc, AppOf(Head(events)), Head(events).duration))

\* (loop of the variant aggregate_by_app_named_only)
RECURSIVE AggregateNamedApps(_, _)
AggregateNamedApps(events, acc) ==
    IF events = <<>> THEN acc
    ELSE AggregateNamedApps(Tail(events),
            IF IsNone(Head(events).app) THEN acc
            ELSE AddTo(acc, Get(Head(events).app), Head(events).duration))

\* faulty variant: events without an app field are skipped
aggregate_by_app_named_only(events) == AggregateNamedApps(events, <<>>)

aggregate_by_app(events) == AggregateApps(events, <<>>)

RECURSIVE AggregateCategories(_, _, _)
AggregateCategories(cats, app_map, acc) ==
    IF app_map = <<>> THEN acc
    ELSE AggregateCategories(cats, Tail(app_map),
            AddTo(acc, categorize_app(cats, Head(app_map)[1]), Head(app_map)[2]))

\* (loop of the variant aggregate_by_category_drops_other)
RECURSIVE AggregateMatchedCategories(_, _, _)
AggregateMatchedCategories(cats, app_map, acc) ==
    IF app_map = <<>> THEN acc
    ELSE AggregateMatchedCategories(cats, Tail(app_map),
            LET c == categorize_app(cats, Head(app_map)[1])
            IN IF c = OtherCategory THEN acc ELSE AddTo(acc, c, Head(app_map)[2]))

\* faulty variant: applications matching no category are left out
aggregate_by_category_drops_other(cats, app_map) ==
    AggregateMatchedCategories(cats, app_map, <<>>)

aggregate_by_category(cats, app_map) == AggregateCategories(cats, app_map, <<>>)

---------------------------------------------------------------------------
(* build_session_view                                                      *)

\* the default arguments, which DataProcessor.process also passes
min_session_minutes == 10
merge_gap_seconds == 120

\* the sentinel texts
NoSessionRecords == "(no continuous usage records)"
NoLongSessions == "(no continuous usage above min_session_minutes)"

NewSession(app, start, end, duration) ==
    [app |-> app, start |-> start, end |-> end, duration |-> duration]

\* faulty variant: the gap must be below the tolerance
Extends_strict(current_session, app, start, gap) ==
    /\ app = current_session.app
    /\ start - current_session.end < gap

\* faulty variant: the gap is measured from the session's start
Extends_from_start(current_session, app, start, gap) ==
    /\ app = current_session.app
    /\ start - current_session.start <= gap

\* the merge condition of the walk, for an event of this app starting at start
Extends(current_session, app, start, gap) ==
    /\ app = current_session.app
    /\ start - current_session.end <= gap

\* faulty variant: the session still open after the last event is not
\* appended
RECURSIVE SessionLoop_drops_last(_, _, _, _)
SessionLoop_drops_last(events, cur, closed, gap) ==
    IF events = <<>> THEN closed
    ELSE LET event == Head(events)
             start == parse_timestamp(event.timestamp)
         IN IF IsNone(start) THEN SessionLoop_drops_last(Tail(events), cur, closed, gap)
            ELSE LET duration == event.duration
                     end == Get(start) + duration
                     app == AppOf(event)
                 IN IF IsNone(cur)
                    THEN SessionLoop_drops_last(Tail(events),
                            Some(NewSession(app, Get(start), end, duration)),
                            closed, gap)
                    ELSE IF Extends(Get(cur), app, Get(start), gap)
                    THEN SessionLoop_drops_last(Tail(events),
                            Some([Get(cur) EXCEPT !.end = Max(Get(cur).end, end),
                                                  !.duration = Get(cur).duration + duration]),
                            closed, gap)
                    ELSE SessionLoop_drops_last(Tail(events),
                            Some(NewSession(app, Get(start), end, duration)),
                            Append(closed, Get(cur)), gap)

\* the walk over the sorted events: cur is current_session (None or Some),
\* closed the sessions list; the result is the final list
RECURSIVE SessionLoop(_, _, _, _)
SessionLoop(events, cur, closed, gap) ==
    IF events = <<>>
    THEN IF IsNone(cur) THEN closed ELSE Append(closed, Get(cur))
    ELSE LET event == Head(events)
             start == parse_timestamp(event.timestamp)
         IN IF IsNone(start) THEN SessionLoop(Tail(events), cur, closed, gap)
            ELSE LET duration == event.duration
                     end == Get(start) + duration
                     app == AppOf(event)
                 IN IF IsNone(cur)
                    THEN SessionLoop(Tail(events),
                            Some(NewSession(app, Get(start), end, duration)),
                            closed, gap)
                    ELSE IF Extends(Get(cur), app, Get(start), gap)
                    THEN SessionLoop(Tail(events),
                            Some([Get(cur) EXCEPT !.end = Max(Get(cur).end, end),
                                                  !.duration = Get(cur).duration + duration]),
                            closed, gap)
                    ELSE SessionLoop(Tail(events),
                            Some(NewSession(app, Get(start), end, duration)),
                            Append(closed, Get(cur)), gap)

\* the sessions before the minimum-duration filter
MergeSessions(events, gap) == SessionLoop(sorted_events(events), None, <<>>, gap)

\* "- {app}: {duration_min}min ({start:%H:%M}-{end:%H:%M})"
SessionLine(session) ==
    [app |-> session.app,
     duration_min |-> session.duration \div 60,
     start |-> HHMM(session.start),
     end |-> HHMM(session.end)]

\* faulty variant: the session must exceed the minimum
LongEnough_strict(session, min_minutes) == session.duration > min_minutes * 60

\* faulty variant: the span from start to end is compared, not the
\* accumulated duration
LongEnough_by_span(session, min_minutes) ==
    session.end - session.start >= min_minutes * 60

LongEnough(session, min_minutes) == session.duration >= min_minutes * 60

RECURSIVE SessionLines(_, _)
SessionLines(ss, min_minutes) ==
    IF ss = <<>> THEN <<>>
    ELSE (IF LongEnough(Head(ss), min_minutes)
          THEN <<SessionLine(Head(ss))>> ELSE <<>>)
         \o SessionLines(Tail(ss), min_minutes)

\* faulty variant: the joined lines are returned also when there are none
View_without_sentinel(lines, sentinel) == [sentinel |-> None, lines |-> lines]

\* a view is its lines, or a sentinel text when there are none
View(lines, sentinel) ==
    IF lines = <<>> THEN [sentinel |-> Some(sentinel), lines |-> <<>>]
    ELSE [sentinel |-> None, lines |-> lines]

build_session_view(events, min_minutes, gap) ==
    IF events = <<>> THEN View(<<>>, NoSessionRecords)
    ELSE View(SessionLines(MergeSessions(events, gap), min_minutes), NoLongSessions)

---------------------------------------------------------------------------
(* build_hourly_switches                                                   *)

InsufficientData == "(not enough data to analyse switching)"
NoSwitches == "(no application switches)"
HighSwitchCount == 5

\* event.get("data", {}).get("app", "")
AppOrEmpty(event) == IF IsNone(event.app) THEN <<>> ELSE Get(event.app)

\* faulty variant: the first walked event counts as a switch
IsSwitch_counts_first(prev_app, app) == IsNone(prev_app) \/ app # Get(prev_app)

\* whether the walked event counts as a switch
IsSwitch(prev_app, app) == ~IsNone(prev_app) /\ app # Get(prev_app)

\* the walk: prev_app is None or Some(app); acc is the dict hour -> count
RECURSIVE SwitchLoop(_, _, _)
SwitchLoop(events, prev_app, acc) ==
    IF events = <<>> THEN acc
    ELSE LET event == Head(events)
             start == parse_timestamp(event.timestamp)
         IN IF IsNone(start) THEN SwitchLoop(Tail(events), prev_app, acc)
            ELSE LET app == AppOrEmpty(event)
                 IN SwitchLoop(Tail(events), Some(app),
                        IF IsSwitch(prev_app, app)
                        THEN AddTo(acc, HourOf(Get(start)), 1)
                        ELSE acc)

hourly_switches(events) == SwitchLoop(sorted_events(events), None, <<>>)

RECURSIVE MaxValue(_)
MaxValue(d) == IF d = <<>> THEN 0 ELSE Max(Head(d)[2], MaxValue(Tail(d)))

\* faulty variant: every hour of five or more switches is marked, whether
\* or not it is the busiest
RECURSIVE HourLines_marks_five(_, _, _)
HourLines_marks_five(d, max_switches, h) ==
    IF h > 23 THEN <<>>
    ELSE (IF HasKey(d, h)
          THEN LET count == Lookup(d, h)
               IN <<[hour |-> h, count |-> count,
                     highlight |-> (count >= HighSwitchCount)]>>
          ELSE <<>>)
         \o HourLines_marks_five(d, max_switches, h + 1)

\* the lines "HH:00: N次[ ← 切换频繁]" for the hours from h on, ascending
RECURSIVE HourLines(_, _, _)
HourLines(d, max_switches, h) ==
    IF h > 23 THEN <<>>
    ELSE (IF HasKey(d, h)
          THEN LET count == Lookup(d, h)
               IN <<[hour |-> h, count |-> count,
                     highlight |-> (count = max_switches /\ count >= HighSwitchCount)]>>
          ELSE <<>>)
         \o HourLines(d, max_switches, h + 1)

\* faulty variant: no test for fewer than two events
build_hourly_switches_unguarded(events) ==
    LET d == hourly_switches(events)
    IN View(HourLines(d, MaxValue(d), 0), NoSwitches)

build_hourly_switches(events) ==
    IF Len(events) < 2 THEN View(<<>>, InsufficientData)
    ELSE LET d == hourly_switches(events)
         IN View(HourLines(d, MaxValue(d), 0), NoSwitches)

---------------------------------------------------------------------------
(* extract_domain and the browser events.  An event's url is None (no url  *)
(* key, or "") or Some([netloc |-> n]), a string that urlparse splits into *)
(* a network location n and anything else; n = "" stands for a string      *)
(* without "//", such as "about:blank".                                    *)

UnknownDomain == <<"u", "n", "k", "n", "o", "w", "n">>
WWW == <<"w", "w", "w", ".">>

\* str.startswith
StartsWith(s, prefix) ==
    Len(s) >= Len(prefix) /\ SubSeq(s, 1, Len(prefix)) = prefix

extract_domain(url) ==
    LET netloc == url.netloc
        domain == IF StartsWith(netloc, WWW)
                  THEN SubSeq(netloc, Len(WWW) + 1, Len(netloc))
                  ELSE netloc
    IN IF domain = <<>> THEN UnknownDomain ELSE domain

\* d[k] = v
Put(d, k, v) ==
    IF HasKey(d, k)
    THEN [i \in 1..Len(d) |-> IF d[i][1] = k THEN <<k, v>> ELSE d[i]]
    ELSE Append(d, <<k, v>>)

\* s[:n]
Take(s, n) == SubSeq(s, 1, IF Len(s) < n THEN Len(s) ELSE n)

\* sorted(d.items(), key=lambda x: -x[1]): stable, largest value first
RECURSIVE InsertByValue(_, _)
InsertByValue(item, s) ==
    IF s = <<>> THEN <<item>>
    ELSE IF item[2] > Head(s)[2] THEN <<item>> \o s
    ELSE <<Head(s)>> \o InsertByValue(item, Tail(s))

RECURSIVE SortByValueFrom(_, _)
SortByValueFrom(d, acc) ==
    IF d = <<>> THEN acc
    ELSE SortByValueFrom(Tail(d), InsertByValue(Head(d), acc))

sorted_by_value(d) == SortByValueFrom(d, <<>>)

\* the loop shared by aggregate_browser_domains and build_website_summary:
\* events with a url add their duration under the url's domain
RECURSIVE AggregateDomains(_, _)
AggregateDomains(events, acc) ==
    IF events = <<>> THEN acc
    ELSE AggregateDomains(Tail(events),
            IF IsNone(Head(events).url) THEN acc
            ELSE AddTo(acc, extract_domain(Get(Head(events).url)),
                       Head(events).duration))

aggregate_browser_domains(events) == AggregateDomains(events, <<>>)

---------------------------------------------------------------------------
(* build_timeline_view                                                     *)

min_duration_seconds == 60
TitleLimit == 30

NoAppRecords == "(no application usage records)"
NoQualifyingRecords == "(no qualifying application usage records)"

BrowserNames ==
    << <<"c", "h", "r", "o", "m", "e">>, <<"s", "a", "f", "a", "r", "i">>,
       <<"f", "i", "r", "e", "f", "o", "x">>, <<"a", "r", "c">>,
       <<"e", "d", "g", "e">> >>

Ellipsis == <<".", ".", ".">>

\* ts[:16], the raw string up to the minute: the same for both formats
MinuteKey(ts) == ts.t \div 60

\* browser_context: minute key -> domain, a later event replacing an
\* earlier one; events without a timestamp or a url are skipped
RECURSIVE BrowserContext(_, _)
BrowserContext(events, acc) ==
    IF events = <<>> THEN acc
    ELSE LET event == Head(events)
         IN BrowserContext(Tail(events),
                IF event.timestamp.fmt = "bad" \/ IsNone(event.url) THEN acc
                ELSE Put(acc, MinuteKey(event.timestamp),
                         extract_domain(Get(event.url))))

IsBrowserApp(app) ==
    \E i \in 1..Len(BrowserNames) : Contains(BrowserNames[i], Lower(app))

\* the text between the brackets after a browser's name, None for ""
ContextOf(event, app, browser_context) ==
    IF ~IsBrowserApp(app) THEN None
    ELSE IF HasKey(browser_context, MinuteKey(event.timestamp))
    THEN Some(Lookup(browser_context, MinuteKey(event.timestamp)))
    ELSE IF event.title = <<>> THEN None
    ELSE IF Len(event.title) > TitleLimit
    THEN Some(Take(event.title, TitleLimit) \o Ellipsis)
    ELSE Some(event.title)

\* "{N}s" below one minute, "{N}min" from one minute on
DurationStr(duration) ==
    IF duration \div 60 < 1 THEN [n |-> duration, unit |-> "s"]
    ELSE [n |-> duration \div 60, unit |-> "min"]

\* "{start:%H:%M}-{end:%H:%M} {app}{context} [{duration_str}]"
TimelineLine(event, start, browser_context) ==
    [start |-> HHMM(start),
     end |-> HHMM(start + event.duration),
     app |-> AppOf(event),
     context |-> ContextOf(event, AppOf(event), browser_context),
     duration_str |-> DurationStr(event.duration)]

\* faulty variant: an event of exactly the minimum duration is left out
RECURSIVE TimelineLines_above_minimum(_, _, _)
TimelineLines_above_minimum(events, browser_context, min_duration) ==
    IF events = <<>> THEN <<>>
    ELSE LET event == Head(events)
             start == parse_timestamp(event.timestamp)
         IN (IF event.duration <= min_duration \/ IsNone(start) THEN <<>>
             ELSE <<TimelineLine(event, Get(start), browser_context)>>)
            \o TimelineLines_above_minimum(Tail(events), browser_context, min_duration)

RECURSIVE TimelineLines(_, _, _)
TimelineLines(events, browser_context, min_duration) ==
    IF events = <<>> THEN <<>>
    ELSE LET event == Head(events)
             start == parse_timestamp(event.timestamp)
         IN (IF event.duration < min_duration \/ IsNone(start) THEN <<>>
             ELSE <<TimelineLine(event, Get(start), browser_context)>>)
            \o TimelineLines(Tail(events), browser_context, min_duration)

build_timeline_view(events, b_events, min_duration) ==
    IF events = <<>> THEN View(<<>>, NoAppRecords)
    ELSE View(TimelineLines(sorted_events(events),
                            BrowserContext(b_events, <<>>), min_duration),
              NoQualifyingRecords)

---------------------------------------------------------------------------
(* build_website_summary                                                   *)

NoBrowserRecords == "(no browser usage records)"
NoValidVisits == "(no valid website visits)"

MaxWorkSites == 5
MaxOtherSites == 10

\* the lines of the summary: a section header, the empty separator line,
\* or "  - {domain}: {minutes}min"
Header(section) == [kind |-> "header", section |-> section]
Separator == [kind |-> "separator"]
SiteLine(item) == [kind |-> "site", domain |-> item[1], minutes |-> item[2] \div 60]

\* any(wd.lower() in domain.lower() for wd in work_domains)
is_work(domain, wds) ==
    \E i \in 1..Len(wds) : Contains(Lower(wds[i]), Lower(domain))

IsWorkItem(wds, item) == is_work(item[1], wds)

SiteLines(sites) == [i \in 1..Len(sites) |-> SiteLine(sites[i])]

AtLeastOneMinute(line) == line.minutes >= 1

\* the section of the work sites: header and the first MaxWorkSites sites
WorkSection(work_sites) ==
    IF work_sites = <<>> THEN <<>>
    ELSE <<Header("work")>> \o SiteLines(Take(work_sites, MaxWorkSites))

\* the section of the other sites, after the lines so far: separator,
\* header, and those of the first MaxOtherSites sites that reach a minute
OtherSection(lines, other_sites) ==
    IF other_sites = <<>> THEN <<>>
    ELSE (IF lines = <<>> THEN <<>> ELSE <<Separator>>)
         \o <<Header("other")>>
         \o SelectSeq(SiteLines(Take(other_sites, MaxOtherSites)), AtLeastOneMinute)

build_website_summary(events, wds) ==
    IF events = <<>> THEN View(<<>>, NoBrowserRecords)
    ELSE LET domain_times == AggregateDomains(events, <<>>)
         IN IF domain_times = <<>> THEN View(<<>>, NoValidVisits)
            ELSE LET IsWork(item) == IsWorkItem(wds, item)
                     IsOther(item) == ~IsWorkItem(wds, item)
                     work_sites == sorted_by_value(SelectSeq(domain_times, IsWork))
                     other_sites == sorted_by_value(SelectSeq(domain_times, IsOther))
                     lines == WorkSection(work_sites)
                 IN View(lines \o OtherSection(lines, other_sites), NoValidVisits)

---------------------------------------------------------------------------
(* The texts of the views.  A text is a sequence of characters; a          *)
(* character outside ASCII is written as one token: "((" and "))" are the  *)
(* full-width brackets of the sentinel texts, "ci" is the counter word     *)
(* after a switch count, "<-" the arrow of the highlight.  The words of a  *)
(* sentinel, of the headers and of the highlight are kept as one token.    *)

LF == "\n"
Ci == "ci"
OpenBracket == "(("
CloseBracket == "))"

Digits == <<"0", "1", "2", "3", "4", "5", "6", "7", "8", "9">>

\* str(n) for n >= 0
RECURSIVE Str(_)
Str(n) ==
    IF n < 10 THEN <<Digits[n + 1]>>
    ELSE Str(n \div 10) \o <<Digits[(n % 10) + 1]>>

\* f"{n:02d}"
Pad2(n) == IF n < 10 THEN <<"0">> \o Str(n) ELSE Str(n)

\* sep.join(texts)
RECURSIVE Join(_, _)
Join(texts, sep) ==
    IF texts = <<>> THEN <<>>
    ELSE IF Len(texts) = 1 THEN texts[1]
    ELSE texts[1] \o <<sep>> \o Join(Tail(texts), sep)

\* strftime('%H:%M')
HHMMText(hm) == Pad2(hm[1]) \o <<":">> \o Pad2(hm[2])

SentinelText(words) == <<OpenBracket, words, CloseBracket>>

\* "{start}-{end} {app}{context} [{duration_str}]"
TimelineLineText(line) ==
    HHMMText(line.start) \o <<"-">> \o HHMMText(line.end) \o <<" ">> \o line.app
    \o (IF IsNone(line.context) THEN <<>>
        ELSE <<" ", "(">> \o Get(line.context) \o <<")">>)
    \o <<" ", "[">> \o Str(line.duration_str.n)
    \o (IF line.duration_str.unit = "s" THEN <<"s">> ELSE <<"m", "i", "n">>)
    \o <<"]">>

\* "- {app}: {duration_min}min ({start}-{end})"
SessionLineText(line) ==
    <<"-", " ">> \o line.app \o <<":", " ">> \o Str(line.duration_min)
    \o <<"m", "i", "n", " ", "(">> \o HHMMText(line.start) \o <<"-">>
    \o HHMMText(line.end) \o <<")">>

\* "{hour:02d}:00: {count}次{highlight}"
HourLineText(line) ==
    Pad2(line.hour) \o <<":", "0", "0", ":", " ">> \o Str(line.count) \o <<Ci>>
    \o (IF line.highlight THEN <<" ", "<-", " ", "frequent switching">> ELSE <<>>)

\* a header with its colon, "", or "  - {domain}: {minutes}min"
WebsiteLineText(line) ==
    IF line.kind = "header" THEN <<line.section, ":">>
    ELSE IF line.kind = "separator" THEN <<>>
    ELSE <<" ", " ", "-", " ">> \o line.domain \o <<":", " ">>
         \o Str(line.minutes) \o <<"m", "i", "n">>

\* the string a view builder returns, from the texts of its lines
ViewText(view, line_texts) ==
    IF ~IsNone(view.sentinel) THEN SentinelText(Get(view.sentinel))
    ELSE Join(line_texts, LF)

TimelineText(view) ==
    ViewText(view, [i \in 1..Len(view.lines) |-> TimelineLineText(view.lines[i])])
SessionsText(view) ==
    ViewText(view, [i \in 1..Len(view.lines) |-> SessionLineText(view.lines[i])])
HourlyText(view) ==
    ViewText(view, [i \in 1..Len(view.lines) |-> HourLineText(view.lines[i])])
WebsiteText(view) ==
    ViewText(view, [i \in 1..Len(view.lines) |-> WebsiteLineText(view.lines[i])])

\* text.split(sep) for a separator of one character
RECURSIVE SplitFrom(_, _, _)
SplitFrom(text, sep, part) ==
    IF text = <<>> THEN <<part>>
    ELSE IF Head(text) = sep THEN <<part>> \o SplitFrom(Tail(text), sep, <<>>)
    ELSE SplitFrom(Tail(text), sep, Append(part, Head(text)))

Split(text, sep) == SplitFrom(text, sep, <<>>)

\* text.strip() (blanks are the only whitespace of these texts)
RECURSIVE LStrip(_)
LStrip(text) ==
    IF text # <<>> /\ Head(text) = " " THEN LStrip(Tail(text)) ELSE text

RECURSIVE RStrip(_, _)
RStrip(text, c) ==
    IF text # <<>> /\ text[Len(text)] = c
    THEN RStrip(SubSeq(text, 1, Len(text) - 1), c) ELSE text

Strip(text) == RStrip(LStrip(text), " ")

DigitValue(c) == CHOOSE d \in 0..9 : Digits[d + 1] = c

RECURSIVE IntOfDigits(_, _)
IntOfDigits(text, acc) ==
    IF text = <<>> THEN acc
    ELSE IntOfDigits(Tail(text), 10 * acc + DigitValue(Head(text)))

\* int(text): None stands for ValueError (the texts carry no sign)
IntOf(text) ==
    IF text # <<>> /\ \A i \in 1..Len(text) : \E d \in 0..9 : Digits[d + 1] = text[i]
    THEN Some(IntOfDigits(text, 0))
    ELSE None

---------------------------------------------------------------------------
(* aggregate_editor_stats.  An editor event carries language and project, *)
(* each None (no such key) or Some(text).                                  *)

UnknownName == <<"u", "n", "k", "n", "o", "w", "n">>

\* the project path reduced to its last component
ProjectName(project) ==
    IF project # <<>> /\ Contains(<<"/">>, project)
    THEN LET parts == Split(RStrip(project, "/"), "/") IN parts[Len(parts)]
    ELSE project

LanguageOf(event) ==
    IF IsNone(event.language) THEN UnknownName ELSE Get(event.language)

ProjectOf(event) ==
    ProjectName(IF IsNone(event.project) THEN UnknownName ELSE Get(event.project))

RECURSIVE AggregateLanguages(_, _)
AggregateLanguages(events, acc) ==
    IF events = <<>> THEN acc
    ELSE AggregateLanguages(Tail(events),
            AddTo(acc, LanguageOf(Head(events)), Head(events).duration))

RECURSIVE AggregateProjects(_, _)
AggregateProjects(events, acc) ==
    IF events = <<>> THEN acc
    ELSE AggregateProjects(Tail(events),
            AddTo(acc, ProjectOf(Head(events)), Head(events).duration))

aggregate_editor_stats(events) ==
    [by_language |-> AggregateLanguages(events, <<>>),
     by_project |-> AggregateProjects(events, <<>>)]

---------------------------------------------------------------------------
(* The snapshot DataProcessor.process returns.  Hours are fixed-point with *)
(* one decimal digit (n stands for n/10).                                  *)

MaxByApp == 10
MaxTopDomains == 10
MaxByLanguage == 5
MaxByProject == 5

\* round(n/d, 0) for d > 0, ties to even (Python's round)
RoundHalfEven(n, d) ==
    LET q == n \div d
        r == n - q * d
    IN IF 2 * r < d THEN q
       ELSE IF 2 * r > d THEN q + 1
       ELSE IF q % 2 = 0 THEN q ELSE q + 1

\* faulty variant: the hours are cut to one decimal, not rounded
seconds_to_hours_truncating(seconds) == (seconds * 10) \div 3600

\* round(seconds / 3600, 1), in tenths of an hour.  (At an exact tie,
\* seconds = 180 + 360 k, Python rounds the binary float, which is not the
\* tie; the inputs of the specifications stay away from these values.)
seconds_to_hours(seconds) == RoundHalfEven(seconds * 10, 3600)

\* [(name, seconds_to_hours(s)) for name, s in items]
InHours(items) ==
    [i \in 1..Len(items) |-> <<items[i][1], seconds_to_hours(items[i][2])>>]

\* faulty variant: by_app is cut before it is sorted
by_app_unsorted(app_map) == InHours(Take(app_map, MaxByApp))

\* the by_app list: the MaxByApp largest entries, largest first
by_app(app_map) == InHours(Take(sorted_by_value(app_map), MaxByApp))

\* the by_category list: every category, largest first
by_category(category_map) == InHours(sorted_by_value(category_map))

\* the dict returned, from the locals of process
MakeStats(app_map, category_map, not_afk, f_browser, f_editor, counts, texts) ==
    LET domain_times == aggregate_browser_domains(f_browser)
        editor_stats == aggregate_editor_stats(f_editor)
    IN [total_hours |-> seconds_to_hours(SumSeq(Values(app_map))),
        not_afk_hours |-> seconds_to_hours(not_afk),
        by_app |-> by_app(app_map),
        by_category |-> by_category(category_map),
        browser |->
            [total_hours |-> seconds_to_hours(SumSeq(Values(domain_times))),
             top_domains |-> InHours(Take(sorted_by_value(domain_times), MaxTopDomains))],
        editor |->
            [total_hours |-> seconds_to_hours(SumSeq(Values(editor_stats.by_language))),
             by_language |->
                 InHours(Take(sorted_by_value(editor_stats.by_language), MaxByLanguage)),
             by_project |->
                 InHours(Take(sorted_by_value(editor_stats.by_project), MaxByProject))],
        event_counts |-> counts,
        views |-> texts]

\* the views dict, from what the four builders return
Views(timeline, sessions_v, hourly, website) ==
    [timeline |-> TimelineText(timeline),
     sessions |-> SessionsText(sessions_v),
     hourly_switches |-> HourlyText(hourly),
     website_summary |-> WebsiteText(website)]

---------------------------------------------------------------------------
(* compare.calculate_change.  Numbers are fixed-point with one decimal     *)
(* digit (n stands for n/10), which is what seconds_to_hours and           *)
(* round(x, 1) hand to calculate_change; percent is in tenths of a percent. *)

\* round((diff / previous) * 100, 1), in tenths; ZeroDivisionError is None
PercentOf(diff, prev) ==
    IF prev = 0 THEN None
    ELSE IF prev > 0 THEN Some(RoundHalfEven(diff * 1000, prev))
    ELSE Some(RoundHalfEven(-(diff * 1000), -prev))

Change(cur, prev, percent, direction, raised) ==
    [current |-> cur, previous |-> prev, diff |-> cur - prev,
     percent |-> percent, direction |-> direction, raised |-> raised]

\* faulty variant: a change of exactly 1.0 percent still reads "same"
ChangeByPercent_same_at_one(cur, prev) ==
    LET diff == cur - prev
        percent == PercentOf(diff, prev)
    IN IF IsNone(percent) THEN Change(cur, prev, None, "same", TRUE)
       ELSE Change(cur, prev, percent,
                   IF Abs(Get(percent)) <= 10 THEN "same"
                   ELSE IF diff > 0 THEN "up" ELSE "down",
                   FALSE)

\* the else branch of calculate_change (the division)
ChangeByPercent(cur, prev) ==
    LET diff == cur - prev
        percent == PercentOf(diff, prev)
    IN IF IsNone(percent) THEN Change(cur, prev, None, "same", TRUE)
       ELSE Change(cur, prev, percent,
                   IF Abs(Get(percent)) < 10 THEN "same"
                   ELSE IF diff > 0 THEN "up" ELSE "down",
                   FALSE)

\* faulty variant: no branch for previous == 0
calculate_change_unguarded(cur, prev) == ChangeByPercent(cur, prev)

\* calculate_change; raised tells whether the call raised ZeroDivisionError
calculate_change(cur, prev) ==
    IF prev = 0
    THEN Change(cur, prev, None, IF cur > 0 THEN "up" ELSE "same", FALSE)
    ELSE ChangeByPercent(cur, prev)

---------------------------------------------------------------------------
(* compare._count_total_switches and compare.compare_stats                 *)

SignificantHours == 5     \* 0.5 h, in tenths
MaxAppChanges == 5

\* the count read from one line of the hourly view; None when the line has
\* no counter word or the try block raises IndexError or ValueError
ParsedCount(line) ==
    IF ~Contains(<<Ci>>, line) THEN None
    ELSE LET parts == Split(line, ":")
         IN IF Len(parts) < 2 THEN None
            ELSE IntOf(Strip(Split(parts[2], Ci)[1]))

RECURSIVE SumParsedCounts(_)
SumParsedCounts(lines) ==
    IF lines = <<>> THEN 0
    ELSE (IF IsNone(ParsedCount(Head(lines))) THEN 0
          ELSE Get(ParsedCount(Head(lines))))
         + SumParsedCounts(Tail(lines))

\* what the try block raises for a line that has the counter word:
\* IndexError without a colon, ValueError when the text between the first
\* colon and the counter word is no number, nothing otherwise
TryBlockError(line) ==
    LET parts == Split(line, ":")
    IN IF Len(parts) < 2 THEN "IndexError"
       ELSE IF IsNone(IntOf(Strip(Split(parts[2], Ci)[1]))) THEN "ValueError"
       ELSE "none"

\* except (IndexError, ValueError): continue
CaughtErrors == {"IndexError", "ValueError"}

\* the exception that leaves the loop over the lines, None when there is none
RECURSIVE UncaughtError(_)
UncaughtError(lines) ==
    IF lines = <<>> THEN None
    ELSE LET error == IF Contains(<<Ci>>, Head(lines))
                      THEN TryBlockError(Head(lines)) ELSE "none"
         IN IF error # "none" /\ error \notin CaughtErrors THEN Some(error)
            ELSE UncaughtError(Tail(lines))

\* the exception _count_total_switches raises, None when it returns
SwitchCountError(snapshot) ==
    LET text == snapshot.views.hourly_switches
    IN IF text = <<>> \/ StartsWith(text, <<OpenBracket>>) THEN None
       ELSE UncaughtError(Split(text, LF))

\* faulty variant: a total of 0 is returned as 0
_count_total_switches_keeps_zero(snapshot) ==
    LET text == snapshot.views.hourly_switches
    IN IF text = <<>> \/ StartsWith(text, <<OpenBracket>>) THEN None
       ELSE Some(SumParsedCounts(Split(text, LF)))

\* _count_total_switches: None for an empty text, a sentinel, or a total
\* that is not positive
_count_total_switches(snapshot) ==
    LET text == snapshot.views.hourly_switches
    IN IF text = <<>> \/ StartsWith(text, <<OpenBracket>>) THEN None
       ELSE LET total == SumParsedCounts(Split(text, LF))
            IN IF total > 0 THEN Some(total) ELSE None

\* not_afk_hours / total_hours * 100 rounded to one decimal, 0 without hours
ActivityRate(snapshot) ==
    IF snapshot.total_hours > 0
    THEN RoundHalfEven(snapshot.not_afk_hours * 1000, snapshot.total_hours)
    ELSE 0

\* previous_apps.get(app, 0)
HoursOr0(apps, app) == IF HasKey(apps, app) THEN Lookup(apps, app) ELSE 0

\* {app: hours for app, hours in by_app}
RECURSIVE DictOf(_, _)
DictOf(items, acc) ==
    IF items = <<>> THEN acc
    ELSE DictOf(Tail(items), Put(acc, Head(items)[1], Head(items)[2]))

AppChange(app, c) == [app |-> app, change |-> c]

\* the loop over current_apps.items()
RECURSIVE AppChanges(_, _)
AppChanges(current_apps, previous_apps) ==
    IF current_apps = <<>> THEN <<>>
    ELSE LET app == Head(current_apps)[1]
             current_hours == Head(current_apps)[2]
             previous_hours == HoursOr0(previous_apps, app)
         IN (IF current_hours >= SignificantHours \/ previous_hours >= SignificantHours
             THEN <<AppChange(app, calculate_change(current_hours, previous_hours))>>
             ELSE <<>>)
            \o AppChanges(Tail(current_apps), previous_apps)

\* app_changes.sort(key=lambda x: abs(x["diff"]), reverse=True): stable
RECURSIVE InsertByAbsDiff(_, _)
InsertByAbsDiff(item, s) ==
    IF s = <<>> THEN <<item>>
    ELSE IF Abs(item.change.diff) > Abs(Head(s).change.diff) THEN <<item>> \o s
    ELSE <<Head(s)>> \o InsertByAbsDiff(item, Tail(s))

RECURSIVE SortByAbsDiffFrom(_, _)
SortByAbsDiffFrom(items, acc) ==
    IF items = <<>> THEN acc
    ELSE SortByAbsDiffFrom(Tail(items), InsertByAbsDiff(Head(items), acc))

top_app_changes(current_stats, previous_stats) ==
    Take(SortByAbsDiffFrom(AppChanges(DictOf(current_stats.by_app, <<>>),
                                      DictOf(previous_stats.by_app, <<>>)),
                           <<>>),
         MaxAppChanges)

\* compare_stats; total_switches is None when the key is not set
compare_stats(current_stats, previous_stats) ==
    LET cur_switches == _count_total_switches(current_stats)
        prev_switches == _count_total_switches(previous_stats)
    IN [total_hours |->
            calculate_change(current_stats.total_hours, previous_stats.total_hours),
        not_afk_hours |->
            calculate_change(current_stats.not_afk_hours, previous_stats.not_afk_hours),
        editor_hours |->
            calculate_change(current_stats.editor.total_hours,
                             previous_stats.editor.total_hours),
        browser_hours |->
            calculate_change(current_stats.browser.total_hours,
                             previous_stats.browser.total_hours),
        activity_rate |->
            calculate_change(ActivityRate(current_stats), ActivityRate(previous_stats)),
        top_app_changes |-> top_app_changes(current_stats, previous_stats),
        total_switches |->
            IF ~IsNone(cur_switches) /\ ~IsNone(prev_switches)
            THEN Some(calculate_change(10 * Get(cur_switches), 10 * Get(prev_switches)))
            ELSE None]

---------------------------------------------------------------------------
(* Inputs                                                                  *)

MaxAfk == 2            \* away events per call
MaxFilterEvents == 2   \* window events per call, SpecFilter
MaxAggEvents == 3      \* window events per call, SpecAgg
MaxWindow == 3         \* window events per call, SpecView
MaxBrowser == 2        \* browser events per call, SpecWeb
MaxWebWindow == 1      \* window events per call, SpecWeb
MaxTopApps == 11       \* window events (one application each), SpecTop
MaxCompareApps == 6    \* window events (one application each), SpecCompare
MaxEvening == 12       \* window events per call, SpecHourly
MaxSession == 3        \* window events per call, SpecSession
MaxOverlap == 3        \* window events per call, SpecRepeat

VSCode == <<"V", "S", "C", "o", "d", "e">>
Chrome == <<"C", "h", "r", "o", "m", "e">>

\* a window event without a title
WindowEvent(ts, duration, app) ==
    [timestamp |-> ts, duration |-> duration, app |-> app, title |-> <<>>]

TitledEvent(ts, duration, app, title) ==
    [timestamp |-> ts, duration |-> duration, app |-> app, title |-> title]

AfkEvent(ts, duration, status) ==
    [timestamp |-> ts, duration |-> duration, status |-> status]

BrowserEvent(ts, duration, url) ==
    [timestamp |-> ts, duration |-> duration, url |-> url]

EditorEvent(ts, duration, language, project) ==
    [timestamp |-> ts, duration |-> duration, language |-> language,
     project |-> project]

Url(netloc) == [netloc |-> netloc]

HMS(h, m, sec) == h * 3600 + m * 60 + sec

\* away events: the active interval [100, 200) as a not-afk entry with and
\* without a parsable timestamp and a positive duration, and as an afk entry
AfkInputs ==
    { AfkEvent(ts, d, Some("not-afk")) : ts \in {BadTs, Naive(100)}, d \in {0, 100} }
    \cup { AfkEvent(Naive(100), 100, Some("afk")) }

\* events before, at the edges of, inside and after [100, 200)
FilterInputs ==
    { WindowEvent(ts, d, Some(VSCode)) :
        ts \in {BadTs, Naive(50), Naive(100), Naive(150), Naive(200)}, d \in {0, 50} }

\* events with and without an application name; 200 s is 0.1 h, 400 s is
\* 0.1 h and 600 s is 0.2 h
AggInputs ==
    { WindowEvent(Naive(HMS(9, 0, 0)), d, app) :
        d \in {0, 200}, app \in {None, Some(VSCode), Some(Chrome), Some(Unknown)} }

\* category mappings: none; disjoint; overlapping (VSCode matches both,
\* the first wins); a category that is itself named "other"
CategoryConfigs ==
    { <<>>,
      << <<"coding", <<<<"c", "o", "d", "e">>>> >>,
         <<"browser", <<<<"C", "H", "R", "O", "M", "E">>>> >> >>,
      << <<"dev", << <<"v", "s">>, <<"c", "h", "r", "o", "m", "e">> >> >>,
         <<"coding", <<<<"C", "o", "d", "e">>>> >> >>,
      << <<"other", <<<<"c", "h", "r">>>> >> >> }

\* 09:00, 09:30, 09:32:00 and 09:32:01 (120 s and 121 s after 09:30),
\* 10:05, a malformed string, and "08:32:00+00:00" (09:32 local time);
\* long and short VSCode events, short Chrome events
ViewInputs ==
    { WindowEvent(ts, k[1], Some(k[2])) :
        ts \in { Naive(HMS(9, 0, 0)), Naive(HMS(9, 30, 0)), Naive(HMS(9, 32, 0)),
                 Naive(HMS(9, 32, 1)), Naive(HMS(10, 5, 0)), BadTs,
                 Utc(HMS(8, 32, 0)) },
        k \in { <<1800, VSCode>>, <<600, VSCode>>, <<600, Chrome>> } }

ExampleCom == <<"e", "x", "a", "m", "p", "l", "e", ".", "c", "o", "m">>
WwwOtherCom == <<"w", "w", "w", ".", "o", "t", "h", "e", "r", ".", "c", "o", "m">>
OtherCom == <<"o", "t", "h", "e", "r", ".", "c", "o", "m">>

\* browser events at 10:05 of 0 s, 45 s and 45 min, without a url, on
\* example.com and on www.other.com
BrowserInputs ==
    { BrowserEvent(Naive(HMS(10, 5, 0)), d, u) :
        d \in {0, 45, 2700},
        u \in {None, Some(Url(ExampleCom)), Some(Url(WwwOtherCom))} }

\* the configured work domains: none, or example.com
WorkDomainConfigs == { <<>>, <<ExampleCom>> }

ShortTitle == <<"D", "o", "c", "s">>
LongTitle == [i \in 1..(TitleLimit + 1) |-> "t"]

\* window events for the timeline: a browser at 10:05 with no title, a
\* short and a long one, a browser event below a minute, an editor event
\* with a malformed timestamp
WebWindowInputs ==
    { WindowEvent(Naive(HMS(10, 5, 0)), 600, Some(Chrome)),
      TitledEvent(Naive(HMS(10, 5, 0)), 600, Some(Chrome), ShortTitle),
      TitledEvent(Naive(HMS(10, 6, 0)), 600, Some(Chrome), LongTitle),
      WindowEvent(Naive(HMS(10, 5, 0)), 30, Some(Chrome)),
      WindowEvent(BadTs, 600, Some(VSCode)) }

\* the i-th application of a period and its one event, at (8 + i):00, of
\* 10 min (0.2 h) or 1 h
AppName(i) == <<"a", "p", "p">> \o Str(i)
PeriodDurations == {600, 3600}
PeriodEvent(i, d) == WindowEvent(Naive(HMS(8 + i, 0, 0)), d, Some(AppName(i)))

\* the other three streams of a compared period, each empty or not
ActiveMorning == <<AfkEvent(Naive(HMS(9, 0, 0)), 3 * 3600, Some("not-afk"))>>
AfkStreams == { <<>>, ActiveMorning }
BrowserStreams ==
    { <<>>, <<BrowserEvent(Naive(HMS(10, 5, 0)), 2700, Some(Url(ExampleCom)))>> }
EditorStreams ==
    { <<>>,
      <<EditorEvent(Naive(HMS(9, 0, 0)), 3600, Some(<<"p", "y">>),
                    Some(<<"/", "s", "r", "c", "/", "a", "p", "p", "/">>)),
        EditorEvent(Naive(HMS(10, 0, 0)), 600, None, None)>> }

\* window events for the sessions and the timeline: VSCode at 09:00, 09:07,
\* 09:10 and with a malformed timestamp, of one minute, five minutes and
\* 700 s; VSCode of half a minute; Chrome at 09:00 and 09:07; and VSCode at
\* "08:08:00+00:00", which is 09:08 local time
SessionInputs ==
    { WindowEvent(ts, d, Some(VSCode)) :
        ts \in { Naive(HMS(9, 0, 0)), Naive(HMS(9, 7, 0)), Naive(HMS(9, 10, 0)), BadTs },
        d \in {60, 300, 700} }
    \cup { WindowEvent(Naive(HMS(9, 0, 0)), 30, Some(VSCode)),
           WindowEvent(Naive(HMS(9, 0, 0)), 60, Some(Chrome)),
           WindowEvent(Naive(HMS(9, 7, 0)), 300, Some(Chrome)),
           WindowEvent(Utc(HMS(8, 8, 0)), 300, Some(VSCode)) }

\* away data around the active interval [100, 200): none; the interval; an
\* afk entry; not-afk entries that give no interval
RepeatAfkStreams ==
    { <<>>,
      <<AfkEvent(Naive(100), 100, Some("not-afk"))>>,
      <<AfkEvent(Naive(100), 100, Some("afk"))>>,
      <<AfkEvent(Naive(100), 0, Some("not-afk")),
        AfkEvent(BadTs, 100, Some("not-afk"))>> }

\* window events of 100 s that reach into [100, 200) from before and from
\* inside, one after it, one with a malformed timestamp, and a short one
\* inside the interval
OverlapInputs ==
    { WindowEvent(ts, 100, Some(VSCode)) :
        ts \in {Naive(50), Naive(150), Naive(250), BadTs} }
    \cup { WindowEvent(Naive(150), 20, Some(Chrome)) }

\* the browser and the editor stream of a repeated call: both empty or not
OtherStreams ==
    { <<b_events, e_events>> \in BrowserStreams \X EditorStreams :
        b_events = <<>> <=> e_events = <<>> }

\* the i-th event of a late evening, one every ten minutes from 23:00 on:
\* events 1 to 6 fall in hour 23, events 7 to 12 in hour 0 of the next day
EveningApps == {VSCode, Chrome}
EveningEvent(i, app) == WindowEvent(Naive(HMS(22, 50, 0) + 600 * i), 60, Some(app))

\* one-decimal numbers in tenths: 0, 0.5, 10, 99, 99.5, 100, 100.5, 101, 200
ChangeInputs == {0, 5, 100, 990, 995, 1000, 1005, 1010, 2000}

---------------------------------------------------------------------------
(* DataProcessor.process as a function of its arguments                    *)

RawData(w_events, a_events, b_events, e_events) ==
    [window |-> w_events, afk |-> a_events, browser |-> b_events,
     editor |-> e_events]

EventCounts(raw) ==
    [window |-> Len(raw.window), afk |-> Len(raw.afk),
     browser |-> Len(raw.browser), editor |-> Len(raw.editor)]

process(raw, cats, wds) ==
    LET periods == _get_not_afk_periods(raw.afk)
        f_window == filter_events(periods, raw.window)
        f_browser == filter_events(periods, raw.browser)
        f_editor == filter_events(periods, raw.editor)
        app_map == aggregate_by_app(f_window)
    IN MakeStats(app_map, aggregate_by_category(cats, app_map),
                 get_total_active_seconds(raw.afk), f_browser, f_editor,
                 EventCounts(raw),
                 Views(build_timeline_view(f_window, f_browser, min_duration_seconds),
                       build_session_view(f_window, min_session_minutes,
                                          merge_gap_seconds),
                       build_hourly_switches(f_window),
                       build_website_summary(f_browser, wds)))

\* the previous periods a run is compared with: an empty one; three
\* applications of 1 h each; one with Chrome, which the current period
\* never has, a 0.2 h application and away data; one with six switches in
\* two hours, five of them between 09:00 and 10:00
PreviousRawData ==
    { RawData(<<>>, <<>>, <<>>, <<>>),
      RawData(<<PeriodEvent(1, 3600), PeriodEvent(2, 3600), PeriodEvent(3, 3600)>>,
              <<>>, <<>>, <<>>),
      RawData(<<PeriodEvent(1, 600), PeriodEvent(2, 3600),
                WindowEvent(Naive(HMS(11, 0, 0)), 3600, Some(Chrome))>>,
              ActiveMorning,
              <<BrowserEvent(Naive(HMS(11, 0, 0)), 600, Some(Url(WwwOtherCom)))>>,
              <<EditorEvent(Naive(HMS(9, 0, 0)), 1800, Some(<<"p", "y">>), None)>>),
      RawData(<<WindowEvent(Naive(HMS(8, 59, 0)), 30, Some(VSCode)),
                WindowEvent(Naive(HMS(9, 0, 0)), 600, Some(Chrome)),
                WindowEvent(Naive(HMS(9, 10, 0)), 600, Some(VSCode)),
                WindowEvent(Naive(HMS(9, 20, 0)), 600, Some(Chrome)),
                WindowEvent(Naive(HMS(9, 30, 0)), 600, Some(VSCode)),
                WindowEvent(Naive(HMS(9, 40, 0)), 1200, Some(Chrome)),
                WindowEvent(Naive(HMS(10, 0, 0)), 1800, Some(VSCode))>>,
              <<>>, <<>>, <<>>) }

PreviousPeriods == { process(raw, <<>>, <<>>) : raw \in PreviousRawData }

\* hourly-switches texts a stored snapshot may carry: none, two sentinels,
\* a text as build_hourly_switches renders it, and texts written by hand:
\* "a:5ci"; four lines of which the second has no colon and the third no
\* number; a line of the counter word alone; "a:xci"; a line without the
\* counter word; a count of 0
RenderedText ==
    HourlyText([sentinel |-> None,
                lines |-> << [hour |-> 9, count |-> 5, highlight |-> TRUE],
                             [hour |-> 10, count |-> 1, highlight |-> FALSE] >>])
FiveText == <<"a", ":", "5", Ci>>
MixedText ==
    <<"a", ":", "5", Ci, LF, Ci, LF, "b", ":", "x", Ci, LF,
      "c", ":", " ", "2", " ", Ci>>
StoredTexts ==
    { <<>>, SentinelText(InsufficientData), SentinelText(NoSwitches),
      RenderedText, FiveText, MixedText, <<Ci>>, <<"a", ":", "x", Ci>>,
      <<"a", ":", "5">>, <<"a", ":", "0", Ci>> }

\* a snapshot without events that carries the text
StoredSnapshot(text) ==
    [process(RawData(<<>>, <<>>, <<>>, <<>>), <<>>, <<>>)
        EXCEPT !.views.hourly_switches = text]

StoredSnapshots == { StoredSnapshot(text) : text \in StoredTexts }

---------------------------------------------------------------------------
(* Actions                                                                 *)

Unset == <<>>

raw_vars == <<afk_events, window_events, browser_events, editor_events>>
config_vars == <<categories, work_domains>>
process_vars ==
    <<filtered_window, filtered_browser, filtered_editor, not_afk_seconds,
      app_times, category_times, sessions, timeline_view, sessions_view,
      hourly_view, website_view, stats>>
compare_vars == <<current_switches, previous_switches, comparison>>
change_vars == <<current, previous, change>>

\* nothing is computed before the call
InitResults ==
    /\ pc = "input"
    /\ filtered_window = Unset
    /\ filtered_browser = Unset
    /\ filtered_editor = Unset
    /\ not_afk_seconds = 0
    /\ app_times = Unset
    /\ category_times = Unset
    /\ sessions = Unset
    /\ timeline_view = Unset
    /\ sessions_view = Unset
    /\ hourly_view = Unset
    /\ website_view = Unset
    /\ stats = Unset
    /\ current_switches = Unset
    /\ previous_switches = Unset
    /\ comparison = Unset
    /\ change = Unset

InitCall ==
    /\ InitResults
    /\ afk_events = <<>>
    /\ window_events = <<>>
    /\ browser_events = <<>>
    /\ editor_events = <<>>
    /\ current = 0
    /\ previous = 0

\* the caller appends one event to raw_data["afk"]
AddAfkEvent ==
    /\ pc = "input"
    /\ Len(afk_events) < MaxAfk
    /\ \E e \in AfkInputs : afk_events' = Append(afk_events, e)
    /\ UNCHANGED <<pc, window_events, browser_events, editor_events, config_vars,
                   process_vars, previous_period, compare_vars, change_vars>>

\* the caller appends one event of the set to raw_data["window"]
AddWindowEvent(inputs, max) ==
    /\ pc = "input"
    /\ Len(window_events) < max
    /\ \E e \in inputs : window_events' = Append(window_events, e)
    /\ UNCHANGED <<pc, afk_events, browser_events, editor_events, config_vars,
                   process_vars, previous_period, compare_vars, change_vars>>

\* the caller appends the event of the next application to raw_data["window"]
AddPeriodEvent(max) ==
    /\ pc = "input"
    /\ Len(window_events) < max
    /\ \E d \in PeriodDurations :
          window_events' = Append(window_events, PeriodEvent(Len(window_events) + 1, d))
    /\ UNCHANGED <<pc, afk_events, browser_events, editor_events, config_vars,
                   process_vars, previous_period, compare_vars, change_vars>>

\* the caller appends the next event of the evening to raw_data["window"]
AddEveningEvent ==
    /\ pc = "input"
    /\ Len(window_events) < MaxEvening
    /\ \E app \in EveningApps :
          window_events' = Append(window_events, EveningEvent(Len(window_events) + 1, app))
    /\ UNCHANGED <<pc, afk_events, browser_events, editor_events, config_vars,
                   process_vars, previous_period, compare_vars, change_vars>>

\* the caller appends one event to raw_data["browser"]
AddBrowserEvent ==
    /\ pc = "input"
    /\ Len(browser_events) < MaxBrowser
    /\ \E e \in BrowserInputs : browser_events' = Append(browser_events, e)
    /\ UNCHANGED <<pc, afk_events, window_events, editor_events, config_vars,
                   process_vars, previous_period, compare_vars, change_vars>>

\* DataProcessor.process: filtering, active time, aggregation, views and
\* the snapshot returned
Process ==
    /\ pc = "input"
    /\ pc' = "done"
    /\ filtered_window' =
           filter_events(_get_not_afk_periods(afk_events), window_events)
    /\ filtered_browser' =
           filter_events(_get_not_afk_periods(afk_events), browser_events)
    /\ filtered_editor' =
           filter_events(_get_not_afk_periods(afk_events), editor_events)
    /\ not_afk_seconds' = get_total_active_seconds(afk_events)
    /\ app_times' = aggregate_by_app(filtered_window')
    /\ category_times' = aggregate_by_category(categories, app_times')
    /\ sessions' = MergeSessions(filtered_window', merge_gap_seconds)
    /\ timeline_view' =
           build_timeline_view(filtered_window', filtered_browser', min_duration_seconds)
    /\ sessions_view' =
           build_session_view(filtered_window', min_session_minutes, merge_gap_seconds)
    /\ hourly_view' = build_hourly_switches(filtered_window')
    /\ website_view' = build_website_summary(filtered_browser', work_domains)
    /\ stats' = MakeStats(app_times', category_times', not_afk_seconds',
                          filtered_browser', filtered_editor',
                          EventCounts(RawData(window_events, afk_events,
                                              browser_events, editor_events)),
                          Views(timeline_view', sessions_view', hourly_view',
                                website_view'))
    /\ UNCHANGED <<raw_vars, config_vars, previous_period, compare_vars, change_vars>>

\* a second call of process on the same processor and the same raw_data,
\* with what the call leaves in its arguments and in the processor
ProcessAgain ==
    /\ pc = "done"
    /\ pc' = "again"
    /\ afk_events' = afk_events
    /\ window_events' =
           ArgumentAfterViews(_get_not_afk_periods(afk_events), window_events)
    /\ browser_events' = browser_events
    /\ editor_events' = editor_events
    /\ categories' = categories
    /\ work_domains' = work_domains
    /\ filtered_window' =
           ArgumentAfterSorted(
               filter_events(_get_not_afk_periods(afk_events), window_events))
    /\ filtered_browser' =
           filter_events(_get_not_afk_periods(afk_events), browser_events)
    /\ filtered_editor' =
           filter_events(_get_not_afk_periods(afk_events), editor_events)
    /\ not_afk_seconds' = get_total_active_seconds(afk_events)
    /\ app_times' = aggregate_by_app(filtered_window')
    /\ category_times' = aggregate_by_category(categories, app_times')
    /\ sessions' = MergeSessions(filtered_window', merge_gap_seconds)
    /\ timeline_view' =
           build_timeline_view(filtered_window', filtered_browser', min_duration_seconds)
    /\ sessions_view' =
           build_session_view(filtered_window', min_session_minutes, merge_gap_seconds)
    /\ hourly_view' = build_hourly_switches(filtered_window')
    /\ website_view' = build_website_summary(filtered_browser', work_domains)
    /\ stats' = process(RawData(window_events, afk_events, browser_events,
                                editor_events),
                        categories, work_domains)
    /\ UNCHANGED <<previous_period, compare_vars, change_vars>>

\* compare_stats(stats, previous_period), with its two switch totals
CompareStats ==
    /\ pc = "done"
    /\ pc' = "compared"
    /\ current_switches' = _count_total_switches(stats)
    /\ previous_switches' = _count_total_switches(previous_period)
    /\ comparison' = compare_stats(stats, previous_period)
    /\ UNCHANGED <<raw_vars, config_vars, process_vars, previous_period, change_vars>>

\* calculate_change(current, previous)
CalculateChange ==
    /\ pc = "input"
    /\ pc' = "done"
    /\ change' = calculate_change(current, previous)
    /\ UNCHANGED <<raw_vars, config_vars, process_vars, previous_period,
                   compare_vars, current, previous>>

---------------------------------------------------------------------------
(* Specifications                                                          *)

NoComparison == work_domains = <<>> /\ previous_period = Unset

\* the away-period filter: away events and window events around [100, 200)
InitFilter == InitCall /\ categories = <<>> /\ NoComparison
NextFilter ==
    \/ AddAfkEvent
    \/ AddWindowEvent(FilterInputs, MaxFilterEvents)
    \/ Process
SpecFilter == InitFilter /\ [][NextFilter]_vars

\* the aggregator: no away data, a category mapping, named and unnamed events
InitAgg == InitCall /\ categories \in CategoryConfigs /\ NoComparison
NextAgg ==
    \/ AddWindowEvent(AggInputs, MaxAggEvents)
    \/ Process
SpecAgg == InitAgg /\ [][NextAgg]_vars

\* the view builders: no away data, timed events of two applications
InitView == InitCall /\ categories = <<>> /\ NoComparison
NextView ==
    \/ AddWindowEvent(ViewInputs, MaxWindow)
    \/ Process
SpecView == InitView /\ [][NextView]_vars

\* the website summary and the timeline: browser events, work domains
InitWeb ==
    /\ InitCall
    /\ categories = <<>>
    /\ work_domains \in WorkDomainConfigs
    /\ previous_period = Unset
NextWeb ==
    \/ AddBrowserEvent
    \/ AddWindowEvent(WebWindowInputs, MaxWebWindow)
    \/ Process
SpecWeb == InitWeb /\ [][NextWeb]_vars

\* the top lists: up to MaxTopApps applications of two durations
InitTop == InitCall /\ categories = <<>> /\ NoComparison
NextTop ==
    \/ AddPeriodEvent(MaxTopApps)
    \/ Process
SpecTop == InitTop /\ [][NextTop]_vars

\* the sessions and the timeline: short, overlapping and unordered events
InitSession == InitCall /\ categories = <<>> /\ NoComparison
NextSession ==
    \/ AddWindowEvent(SessionInputs, MaxSession)
    \/ Process
SpecSession == InitSession /\ [][NextSession]_vars

\* the hourly switches: an evening of events across midnight
InitHourly == InitCall /\ categories = <<>> /\ NoComparison
NextHourly ==
    \/ AddEveningEvent
    \/ Process
SpecHourly == InitHourly /\ [][NextHourly]_vars

\* a period processed and compared with a previous one
InitCompare ==
    /\ InitResults
    /\ afk_events \in AfkStreams
    /\ window_events = <<>>
    /\ browser_events \in BrowserStreams
    /\ editor_events \in EditorStreams
    /\ categories = <<>>
    /\ work_domains = <<>>
    /\ previous_period \in PreviousPeriods
    /\ current = 0
    /\ previous = 0
NextCompare ==
    \/ AddPeriodEvent(MaxCompareApps)
    \/ Process
    \/ CompareStats
SpecCompare == InitCompare /\ [][NextCompare]_vars

\* process called twice on the same arguments
InitRepeat ==
    /\ InitResults
    /\ afk_events \in RepeatAfkStreams
    /\ window_events = <<>>
    /\ \E streams \in OtherStreams :
          browser_events = streams[1] /\ editor_events = streams[2]
    /\ categories = <<>>
    /\ NoComparison
    /\ current = 0
    /\ previous = 0
NextRepeat ==
    \/ AddWindowEvent(OverlapInputs, MaxOverlap)
    \/ Process
    \/ ProcessAgain
SpecRepeat == InitRepeat /\ [][NextRepeat]_vars

\* compare_stats on two stored snapshots
InitStored ==
    /\ pc = "done"
    /\ afk_events = <<>>
    /\ window_events = <<>>
    /\ browser_events = <<>>
    /\ editor_events = <<>>
    /\ categories = <<>>
    /\ work_domains = <<>>
    /\ filtered_window = Unset
    /\ filtered_browser = Unset
    /\ filtered_editor = Unset
    /\ not_afk_seconds = 0
    /\ app_times = Unset
    /\ category_times = Unset
    /\ sessions = Unset
    /\ timeline_view = Unset
    /\ sessions_view = Unset
    /\ hourly_view = Unset
    /\ website_view = Unset
    /\ stats \in StoredSnapshots
    /\ previous_period \in StoredSnapshots
    /\ current_switches = Unset
    /\ previous_switches = Unset
    /\ comparison = Unset
    /\ current = 0
    /\ previous = 0
    /\ change = Unset
NextStored == CompareStats
SpecStored == InitStored /\ [][NextStored]_vars

\* calculate_change on a pair of numbers
InitChange ==
    /\ InitResults
    /\ afk_events = <<>>
    /\ window_events = <<>>
    /\ browser_events = <<>>
    /\ editor_events = <<>>
    /\ categories = <<>>
    /\ NoComparison
    /\ current \in ChangeInputs
    /\ previous \in ChangeInputs
NextChange == CalculateChange
SpecChange == InitChange /\ [][NextChange]_vars

---------------------------------------------------------------------------
(* Properties of the away-period filter (SpecFilter)                       *)

Done == pc = "done"

Range(s) == {s[i] : i \in 1..Len(s)}

Parses(event) == ~IsNone(parse_timestamp(event.timestamp))
StartOf(event) == Get(parse_timestamp(event.timestamp))
EndOf(event) == StartOf(event) + event.duration

IsNotAfk(e) == e.status = Some("not-afk")

\* the active intervals, as the construction rule states them
ActiveIntervals ==
    { <<StartOf(afk_events[i]), EndOf(afk_events[i])>> :
        i \in { j \in 1..Len(afk_events) :
                  /\ IsNotAfk(afk_events[j])
                  /\ Parses(afk_events[j])
                  /\ afk_events[j].duration > 0 } }

Overlaps(event, iv) == StartOf(event) < iv[2] /\ EndOf(event) > iv[1]
Outside(event, iv) == EndOf(event) <= iv[1] \/ StartOf(event) >= iv[2]
Inside(event, iv) == iv[1] <= StartOf(event) /\ EndOf(event) <= iv[2]

\* C1: if the away-event list is empty, filter_events returns exactly the
\* input list (same events, same order, nothing dropped), also for events
\* whose timestamp does not parse.
C1_EmptyAwayListIsIdentity ==
    (Done /\ afk_events = <<>>) => filtered_window = window_events

\* C1 witness: two events, one with an unparsable timestamp, no away data,
\* both returned.
C1_Witness ==
    /\ Done
    /\ afk_events = <<>>
    /\ Len(window_events) = 2
    /\ \E i \in 1..2 : ~Parses(window_events[i])
    /\ filtered_window = window_events

\* C2: with at least one active interval, every event filter_events keeps
\* has a parsable timestamp and overlaps some active interval under the
\* strict half-open test, and every event that lies outside all active
\* intervals (touching an interval's start or end included) is dropped.
C2_KeptOnlyIfStrictOverlap ==
    Done =>
        LET ivs == ActiveIntervals
        IN ivs # {} =>
            /\ \A i \in 1..Len(filtered_window) :
                  /\ Parses(filtered_window[i])
                  /\ \E iv \in ivs : Overlaps(filtered_window[i], iv)
            /\ \A i \in 1..Len(window_events) :
                  (\/ ~Parses(window_events[i])
                   \/ \A iv \in ivs : Outside(window_events[i], iv))
                  => window_events[i] \notin Range(filtered_window)

\* C2 witness: an event that ends exactly at an interval's start is dropped
\* while another event of the same call is kept.
C2_Witness ==
    /\ Done
    /\ ActiveIntervals # {}
    /\ filtered_window # <<>>
    /\ \E i \in 1..Len(window_events) :
          /\ Parses(window_events[i])
          /\ window_events[i].duration > 0
          /\ \E iv \in ActiveIntervals : EndOf(window_events[i]) = iv[1]
          /\ window_events[i] \notin Range(filtered_window)

\* C3 as stated: every event with a parsable timestamp and duration >= 0
\* that lies inside one active interval (interval_start <= t and
\* t + d <= interval_end) is in the output, duration 0 included.
C3_InsideIsIncluded_AnyDuration ==
    Done =>
        \A i \in 1..Len(window_events) :
            (/\ Parses(window_events[i])
             /\ \E iv \in ActiveIntervals : Inside(window_events[i], iv))
            => window_events[i] \in Range(filtered_window)

\* C3 amended: an event with a parsable timestamp that lies inside one
\* active interval is in the output if its duration is positive, or if its
\* duration is 0 and interval_start < t < interval_end.
C3_InsideIsIncluded ==
    Done =>
        \A i \in 1..Len(window_events) :
            (/\ Parses(window_events[i])
             /\ \E iv \in ActiveIntervals :
                   /\ Inside(window_events[i], iv)
                   /\ \/ window_events[i].duration > 0
                      \/ iv[1] < StartOf(window_events[i])
                         /\ StartOf(window_events[i]) < iv[2])
            => window_events[i] \in Range(filtered_window)

\* C3 witness: an event of positive duration that starts exactly at an
\* interval's start, and an event of duration 0 strictly inside it, are
\* both kept.
C3_Witness ==
    /\ Done
    /\ \E iv \in ActiveIntervals :
          /\ \E i \in 1..Len(window_events) :
                /\ Parses(window_events[i])
                /\ window_events[i].duration > 0
                /\ StartOf(window_events[i]) = iv[1]
                /\ Inside(window_events[i], iv)
                /\ window_events[i] \in Range(filtered_window)
          /\ \E i \in 1..Len(window_events) :
                /\ Parses(window_events[i])
                /\ window_events[i].duration = 0
                /\ iv[1] < StartOf(window_events[i])
                /\ StartOf(window_events[i]) < iv[2]
                /\ window_events[i] \in Range(filtered_window)

\* C4: when some not-afk entry has a positive duration,
\* get_total_active_seconds is the sum of the durations of all not-afk
\* entries: overlapping entries count in full, and entries whose timestamp
\* does not parse count too.
C4_TotalActiveIsSumOfNotAfk ==
    (Done /\ \E i \in 1..Len(afk_events) :
                 IsNotAfk(afk_events[i]) /\ afk_events[i].duration > 0)
    => not_afk_seconds = SumSeq(Durations(SelectSeq(afk_events, IsNotAfk)))

\* C4 witness: two not-afk entries covering the same interval are both
\* counted in full.
C4_Witness ==
    /\ Done
    /\ Len(afk_events) = 2
    /\ afk_events[1] = afk_events[2]
    /\ IsNotAfk(afk_events[1])
    /\ Parses(afk_events[1])
    /\ afk_events[1].duration > 0
    /\ not_afk_seconds = 2 * afk_events[1].duration

---------------------------------------------------------------------------
(* Properties of the aggregator (SpecAgg)                                  *)

HasApp(event) == ~IsNone(event.app)
CountsAsUnknown(event) == IsNone(event.app) \/ event.app = Some(Unknown)

\* C5 as stated: the sum of the values of aggregate_by_app(events) is the
\* sum of the durations of the events that have an app field (events
\* lacking one do not contribute).
C5_AppSumIsSumOfNamedEvents ==
    Done => SumSeq(Values(app_times))
              = SumSeq(Durations(SelectSeq(filtered_window, HasApp)))

\* C5 amended: the sum of the values of aggregate_by_app(events) is the sum
\* of the durations of all the events; an event lacking an app field
\* contributes its duration under the key "Unknown".
C5_AppSumIsSumOfAllEvents ==
    Done =>
        /\ SumSeq(Values(app_times)) = SumSeq(Durations(filtered_window))
        /\ (\E i \in 1..Len(filtered_window) : CountsAsUnknown(filtered_window[i]))
              => /\ HasKey(app_times, Unknown)
                 /\ Lookup(app_times, Unknown)
                      = SumSeq(Durations(SelectSeq(filtered_window, CountsAsUnknown)))

\* C5 witness: an event without an app field and with a positive duration
\* is aggregated beside a named one.
C5_Witness ==
    /\ Done
    /\ \E i \in 1..Len(filtered_window) :
          IsNone(filtered_window[i].app) /\ filtered_window[i].duration > 0
    /\ \E i \in 1..Len(filtered_window) :
          filtered_window[i].app = Some(VSCode) /\ filtered_window[i].duration > 0
    /\ HasKey(app_times, Unknown)
    /\ Lookup(app_times, Unknown) > 0

\* the categories (by position in the mapping) one of whose patterns occurs,
\* case-insensitively, in the application name
MatchingCategories(app_name) ==
    { i \in 1..Len(categories) :
        \E j \in 1..Len(categories[i][2]) :
            Contains(Lower(categories[i][2][j]), Lower(app_name)) }

\* the first matching category in the order of the mapping, or "other"
FirstMatch(app_name) ==
    IF MatchingCategories(app_name) = {} THEN "other"
    ELSE categories[CHOOSE i \in MatchingCategories(app_name) :
                        \A k \in MatchingCategories(app_name) : i <= k][1]

InCategory(c) == LET Test(entry) == FirstMatch(entry[1]) = c
                 IN SelectSeq(app_times, Test)

\* C6: aggregate_by_category conserves the total, and every application is
\* counted in exactly one category, its first match or "other": the
\* categories are those of the applications, each holding the sum of its
\* applications' seconds.
C6_CategoryConservesTotal ==
    Done =>
        /\ SumSeq(Values(category_times)) = SumSeq(Values(app_times))
        /\ {category_times[i][1] : i \in 1..Len(category_times)}
             = {FirstMatch(app_times[i][1]) : i \in 1..Len(app_times)}
        /\ \A i \in 1..Len(category_times) :
              /\ category_times[i][2] = SumSeq(Values(InCategory(category_times[i][1])))
              /\ \A k \in 1..Len(category_times) :
                    category_times[k][1] = category_times[i][1] => k = i

\* C6 witness: an application matching two categories is counted in the
\* first only, beside an application that matches none.
C6_Witness ==
    /\ Done
    /\ \E i \in 1..Len(app_times) :
          /\ Cardinality(MatchingCategories(app_times[i][1])) = 2
          /\ app_times[i][2] > 0
    /\ \E i \in 1..Len(app_times) :
          /\ MatchingCategories(app_times[i][1]) = {}
          /\ app_times[i][2] > 0
    /\ HasKey(category_times, "other")
    /\ SumSeq(Values(category_times)) = SumSeq(Values(app_times))

---------------------------------------------------------------------------
(* Properties of the view builders (SpecView)                              *)

\* the events the builders walk: raw-timestamp order, unparsable skipped
Walked == SelectSeq(sorted_events(filtered_window), Parses)

\* C7: two consecutive same-app events whose gap (second start minus first
\* end) is exactly merge_gap_seconds are merged into one session; a gap of
\* merge_gap_seconds + 1 gives two sessions.
C7_MergeGapBoundary ==
    (/\ Done
     /\ Len(Walked) = 2
     /\ Walked[1].app = Walked[2].app) =>
        LET gap == StartOf(Walked[2]) - EndOf(Walked[1])
        IN /\ gap = merge_gap_seconds =>
                 /\ Len(sessions) = 1
                 /\ sessions[1].start = StartOf(Walked[1])
                 /\ sessions[1].end = EndOf(Walked[2])
                 /\ sessions[1].duration = Walked[1].duration + Walked[2].duration
           /\ gap = merge_gap_seconds + 1 =>
                 /\ Len(sessions) = 2
                 /\ sessions[1].end = EndOf(Walked[1])
                 /\ sessions[2].start = StartOf(Walked[2])

\* C7 witness: a gap of exactly merge_gap_seconds, merged.
C7_Witness ==
    /\ Done
    /\ Len(Walked) = 2
    /\ Walked[1].app = Walked[2].app
    /\ StartOf(Walked[2]) - EndOf(Walked[1]) = merge_gap_seconds
    /\ Len(sessions) = 1

\* the scenario: (09:00, 1800 s, VSCode), (09:30, 1800 s, VSCode),
\* (10:05, 600 s, Chrome), no away events
Scenario ==
    << WindowEvent(Naive(HMS(9, 0, 0)), 1800, Some(VSCode)),
       WindowEvent(Naive(HMS(9, 30, 0)), 1800, Some(VSCode)),
       WindowEvent(Naive(HMS(10, 5, 0)), 600, Some(Chrome)) >>

InScenario == Done /\ afk_events = <<>> /\ window_events = Scenario

VSCodeLine == [app |-> VSCode, duration_min |-> 60, start |-> <<9, 0>>, end |-> <<10, 0>>]
ChromeLine == [app |-> Chrome, duration_min |-> 10, start |-> <<10, 5>>, end |-> <<10, 15>>]

\* C8 as stated: in the scenario the session view holds exactly one
\* session, VSCode 09:00-10:00 with 60min, and no Chrome session.
C8_ScenarioOneSession ==
    InScenario => sessions_view = [sentinel |-> None, lines |-> <<VSCodeLine>>]

\* C8 amended: in the scenario the session view holds two sessions, VSCode
\* 09:00-10:00 with 60min and then Chrome 10:05-10:15 with 10min (600 s is
\* not below the 10-minute minimum).
C8_ScenarioTwoSessions ==
    InScenario =>
        sessions_view = [sentinel |-> None, lines |-> <<VSCodeLine, ChromeLine>>]

\* C8 witness: the scenario has been processed.
C8_Witness == InScenario /\ Len(sessions_view.lines) = 2

\* the positions of the walk w whose event differs in app from the event
\* walked just before it
SwitchPositions(w) ==
    { i \in 2..Len(w) : AppOrEmpty(w[i]) # AppOrEmpty(w[i - 1]) }

SwitchesAt(w, h) == { i \in SwitchPositions(w) : HourOf(StartOf(w[i])) = h }

LineCounts == [i \in 1..Len(hourly_view.lines) |-> hourly_view.lines[i].count]

\* C9: build_hourly_switches walks the events in raw-timestamp order,
\* skipping unparsable timestamps, and counts one switch at the hour of an
\* event exactly when its app differs from the app of the event walked
\* just before it; the first walked event never counts, so the counts sum
\* to the number of adjacent pairs with different apps (one switch at hour
\* 10 in the scenario).
C9_SwitchesPerHour ==
    Done =>
        LET w == Walked
            lines == hourly_view.lines
        IN /\ {lines[i].hour : i \in 1..Len(lines)}
                = {HourOf(StartOf(w[i])) : i \in SwitchPositions(w)}
           /\ \A i \in 1..Len(lines) :
                 lines[i].count = Cardinality(SwitchesAt(w, lines[i].hour))
           /\ SumSeq(LineCounts) = Cardinality(SwitchPositions(w))
           /\ InScenario =>
                 lines = <<[hour |-> 10, count |-> 1, highlight |-> FALSE]>>

\* C9 witness: three walked events with two switches, in different hours;
\* the first walked event is not counted.
C9_Witness ==
    /\ Done
    /\ Len(Walked) = 3
    /\ Len(hourly_view.lines) = 2
    /\ SumSeq(LineCounts) = 2

---------------------------------------------------------------------------
(* Properties of calculate_change (SpecChange)                             *)

\* C10: with previous = 0 calculate_change does not divide: percent is None
\* and direction is "up" if current > 0 and "same" otherwise (10 against 0
\* is up, 0 against 0 is same); 100 against 100 is "same" with percent 0.0.
C10_ZeroBaseline ==
    Done =>
        /\ previous = 0 =>
              /\ ~change.raised
              /\ change.percent = None
              /\ change.direction = (IF current > 0 THEN "up" ELSE "same")
        /\ (current = 100 /\ previous = 0) =>
              change.direction = "up" /\ change.percent = None
        /\ (current = 1000 /\ previous = 1000) =>
              change.direction = "same" /\ change.percent = Some(0)

\* C10 witness: 10 against 0.
C10_Witness ==
    /\ Done
    /\ current = 100
    /\ previous = 0
    /\ change.direction = "up"
    /\ change.percent = None

\* C11: with previous # 0, percent is diff / previous * 100 rounded to one
\* decimal (the nearest tenth, a tie going to the even tenth); direction is
\* "same" exactly when |percent| < 1, otherwise "up" when diff > 0 and
\* "down" when diff < 0; so "up" implies current > previous and "down"
\* implies current < previous.
C11_PercentAndDirection ==
    (Done /\ previous # 0) =>
        LET diff == current - previous
            p == change.percent
        IN /\ ~change.raised
           /\ ~IsNone(p)
           /\ 2 * Abs(Get(p) * previous - diff * 1000) <= Abs(previous)
           /\ 2 * Abs(Get(p) * previous - diff * 1000) = Abs(previous)
                 => Get(p) % 2 = 0
           /\ change.direction = "same" <=> Abs(Get(p)) < 10
           /\ Abs(Get(p)) >= 10 =>
                 /\ diff > 0 => change.direction = "up"
                 /\ diff < 0 => change.direction = "down"
           /\ change.direction = "up" => current > previous
           /\ change.direction = "down" => current < previous

\* C11 witness: 101 against 100 is exactly 1.0 percent and reads "up", not
\* "same".
C11_Witness ==
    /\ Done
    /\ current = 1010
    /\ previous = 1000
    /\ change.percent = Some(10)
    /\ change.direction = "up"

---------------------------------------------------------------------------
(* Properties of compare_stats (SpecCompare)                               *)

Compared == pc = "compared"

\* the applications of a by_app list
AppsOf(items) == {items[i][1] : i \in 1..Len(items)}

TopChanges == comparison.top_app_changes

\* the entry of top_app_changes for an application is there
InTopChanges(app) == \E j \in 1..Len(TopChanges) : TopChanges[j].app = app

\* hours and diff are in tenths
AbsDiffOf(app) ==
    Abs(HoursOr0(stats.by_app, app) - HoursOr0(previous_period.by_app, app))

\* C12 as stated: the per-application deltas cover the union of the
\* applications of the two by_app lists: an application only in the
\* previous list with previous hours >= 0.5 is a candidate for
\* top_app_changes, with current value 0 (it is in the list unless five
\* entries with an absolute diff at least as large fill it).
C12_PreviousOnlyAppIsCandidate ==
    Compared =>
        \A app \in AppsOf(previous_period.by_app) \ AppsOf(stats.by_app) :
            HoursOr0(previous_period.by_app, app) >= SignificantHours =>
                \/ \E j \in 1..Len(TopChanges) :
                      /\ TopChanges[j].app = app
                      /\ TopChanges[j].change.current = 0
                      /\ TopChanges[j].change.previous
                            = HoursOr0(previous_period.by_app, app)
                \/ /\ Len(TopChanges) = MaxAppChanges
                   /\ \A j \in 1..Len(TopChanges) :
                         Abs(TopChanges[j].change.diff) >= AbsDiffOf(app)

\* the text of the hourly view has at least one hour line
HasHourLines(snapshot) ==
    /\ snapshot.views.hourly_switches # <<>>
    /\ ~StartsWith(snapshot.views.hourly_switches, <<OpenBracket>>)

\* C13 as stated: for a text rendered by build_hourly_switches with at
\* least one hour line, _count_total_switches returns the sum of the
\* per-hour counts, and compare_stats reports total_switches as the change
\* between the two totals.
C13_SwitchTotalRoundTrip ==
    Compared =>
        /\ hourly_view.lines # <<>> =>
              current_switches = Some(SumSeq(LineCounts))
        /\ (HasHourLines(stats) /\ HasHourLines(previous_period)) =>
              /\ ~IsNone(comparison.total_switches)
              /\ Get(comparison.total_switches).current = 10 * SumSeq(LineCounts)

\* the applications of either list whose current or previous hours reach 0.5
Retained ==
    { app \in AppsOf(stats.by_app) \cup AppsOf(previous_period.by_app) :
        \/ HoursOr0(stats.by_app, app) >= SignificantHours
        \/ HoursOr0(previous_period.by_app, app) >= SignificantHours }

\* C14 as stated: an application is retained in the per-application changes
\* if and only if its current or its previous hours are >= 0.5;
\* top_app_changes is sorted by non-increasing absolute diff and holds at
\* most 5 entries, the retained ones of largest absolute diff.
C14_RetainedIffSignificant ==
    Compared =>
        /\ \A j \in 1..Len(TopChanges) : TopChanges[j].app \in Retained
        /\ \A j \in 1..Len(TopChanges) :
              Abs(TopChanges[j].change.diff) = AbsDiffOf(TopChanges[j].app)
        /\ \A j \in 2..Len(TopChanges) :
              Abs(TopChanges[j - 1].change.diff) >= Abs(TopChanges[j].change.diff)
        /\ Len(TopChanges) <= MaxAppChanges
        /\ Len(TopChanges) < MaxAppChanges =>
              \A app \in Retained : InTopChanges(app)
        /\ \A app \in Retained :
              ~InTopChanges(app) =>
                  \A j \in 1..Len(TopChanges) :
                      Abs(TopChanges[j].change.diff) >= AbsDiffOf(app)

---------------------------------------------------------------------------
(* Properties of the snapshot's lists (SpecAgg, SpecTop)                   *)

\* the sum of the hours of a list of (name, hours), in tenths of an hour
HoursSum(items) == SumSeq(Values(items))

\* an hour is 3600 s, a tenth of an hour 360 s, half a tenth 180 s
TenthOfHour == 360

\* C15 as stated: in every snapshot the sum of the hours of the by_category
\* list equals the sum of the hours of the by_app list.
C15_CategoryHoursEqualAppHours ==
    Done => HoursSum(stats.by_category) = HoursSum(stats.by_app)

\* C15 amended: the seconds behind the two lists have the same sum, of
\* which total_hours is the rounding; every listed value is its own seconds
\* rounded to one decimal, so the sum of the by_category hours differs from
\* the total by at most 0.05 h per category, and the sum of the by_app
\* hours by at most 0.05 h per application when there are no more than 10
\* applications.
C15_SumsAgreeUpToRounding ==
    Done =>
        LET total_seconds == SumSeq(Values(app_times))
        IN /\ SumSeq(Values(category_times)) = total_seconds
           /\ stats.total_hours = seconds_to_hours(total_seconds)
           /\ Len(stats.by_category) = Len(category_times)
           /\ 2 * Abs(TenthOfHour * HoursSum(stats.by_category) - total_seconds)
                 <= TenthOfHour * Len(stats.by_category)
           /\ Len(app_times) <= MaxByApp =>
                 /\ Len(stats.by_app) = Len(app_times)
                 /\ 2 * Abs(TenthOfHour * HoursSum(stats.by_app) - total_seconds)
                       <= TenthOfHour * Len(stats.by_app)

\* C15 witness: two applications of 200 s (0.1 h each) in one category of
\* 400 s (0.1 h): the by_app hours sum to 0.2, the by_category hours to 0.1.
C15_Witness ==
    /\ Done
    /\ Len(stats.by_app) = 2
    /\ Len(stats.by_category) = 1
    /\ HoursSum(stats.by_app) = 2
    /\ HoursSum(stats.by_category) = 1
    /\ SumSeq(Values(app_times)) = 400

---------------------------------------------------------------------------
(* Properties of the views (SpecWeb)                                       *)

IsSentinelText(text) == StartsWith(text, <<OpenBracket>>)

\* C16: each of the four views of the snapshot (timeline, sessions,
\* hourly_switches, website_summary) is a non-empty string; a view for
\* which no line is produced is a sentinel placeholder, never "".
C16_ViewsAreNonEmpty ==
    Done =>
        /\ stats.views.timeline # <<>>
        /\ stats.views.sessions # <<>>
        /\ stats.views.hourly_switches # <<>>
        /\ stats.views.website_summary # <<>>
        /\ timeline_view.lines = <<>> => IsSentinelText(stats.views.timeline)
        /\ sessions_view.lines = <<>> => IsSentinelText(stats.views.sessions)
        /\ hourly_view.lines = <<>> => IsSentinelText(stats.views.hourly_switches)
        /\ website_view.lines = <<>> => IsSentinelText(stats.views.website_summary)

\* C16 witness: window and browser events are given, yet no line is
\* produced for the timeline (the event is below a minute) nor for the
\* website summary (no event has a url); both views are sentinels.
C16_Witness ==
    /\ Done
    /\ filtered_window # <<>>
    /\ filtered_browser # <<>>
    /\ timeline_view.lines = <<>>
    /\ website_view.lines = <<>>
    /\ IsSentinelText(stats.views.timeline)
    /\ IsSentinelText(stats.views.website_summary)

\* the seconds per domain, and the domains that are not work domains
DomainTimes == aggregate_browser_domains(filtered_browser)
IsOtherDomain(item) == ~is_work(item[1], work_domains)
OtherSites == SelectSeq(DomainTimes, IsOtherDomain)

IsOtherHeader(line) == line = Header("other")
IsSeparator(line) == line = Separator

\* C17 as stated: when every domain that is not a work domain renders below
\* one whole minute, the "other" section is omitted; with work_domains =
\* ["example.com"] and totals example.com = 2700 s, other.com = 45 s the
\* output is the work section listing example.com: 45min, with no header
\* and no separator for an "other" section.
C17_EmptyOtherSectionOmitted ==
    Done =>
        /\ (\A i \in 1..Len(OtherSites) : OtherSites[i][2] \div 60 < 1) =>
              /\ SelectSeq(website_view.lines, IsOtherHeader) = <<>>
              /\ SelectSeq(website_view.lines, IsSeparator) = <<>>
        /\ (/\ work_domains = <<ExampleCom>>
            /\ DomainTimes = << <<ExampleCom, 2700>>, <<OtherCom, 45>> >>) =>
              website_view.lines
                  = <<Header("work"), SiteLine(<<ExampleCom, 2700>>)>>

\* C18 as stated: build_website_summary returns a sentinel whenever there
\* are no browser events, no event has a url, or no domain accumulates
\* nonzero time; if every event with a url has duration 0 the result is the
\* sentinel, not a section header or a 0min entry.
C18_SentinelWithoutNonzeroTime ==
    (Done /\ \A i \in 1..Len(DomainTimes) : DomainTimes[i][2] = 0) =>
        /\ ~IsNone(website_view.sentinel)
        /\ IsSentinelText(stats.views.website_summary)

---------------------------------------------------------------------------
(* Properties of empty input (SpecCompare) and of by_app (SpecTop)         *)

Processed == pc \in {"done", "compared"}

\* the snapshot of four empty streams
EmptySnapshot ==
    [total_hours |-> 0,
     not_afk_hours |-> 0,
     by_app |-> <<>>,
     by_category |-> <<>>,
     browser |-> [total_hours |-> 0, top_domains |-> <<>>],
     editor |-> [total_hours |-> 0, by_language |-> <<>>, by_project |-> <<>>],
     event_counts |-> [window |-> 0, afk |-> 0, browser |-> 0, editor |-> 0],
     views |-> [timeline |-> SentinelText(NoAppRecords),
                sessions |-> SentinelText(NoSessionRecords),
                hourly_switches |-> SentinelText(InsufficientData),
                website_summary |-> SentinelText(NoBrowserRecords)]]

SameWithoutPercent(c) ==
    /\ ~c.raised
    /\ c.direction = "same"
    /\ c.percent = None
    /\ c.diff = 0

\* C19: process accepts an empty list for any of the four streams, and the
\* part of the snapshot that comes from an empty stream is zero, empty or a
\* sentinel; with all four empty the snapshot has total_hours 0,
\* not_afk_hours 0, empty lists, browser and editor totals 0, event_counts
\* all 0 and the four sentinel texts; compare_stats on two such snapshots
\* gives direction "same" with percent None for every metric, without a
\* division by zero.
C19_EmptyStreams ==
    /\ Processed =>
          /\ stats.event_counts
                = [window |-> Len(window_events), afk |-> Len(afk_events),
                   browser |-> Len(browser_events), editor |-> Len(editor_events)]
          /\ window_events = <<>> =>
                /\ stats.total_hours = 0
                /\ stats.by_app = <<>>
                /\ stats.by_category = <<>>
                /\ stats.views.timeline = EmptySnapshot.views.timeline
                /\ stats.views.sessions = EmptySnapshot.views.sessions
                /\ stats.views.hourly_switches = EmptySnapshot.views.hourly_switches
          /\ afk_events = <<>> => stats.not_afk_hours = 0
          /\ browser_events = <<>> =>
                /\ stats.browser = EmptySnapshot.browser
                /\ stats.views.website_summary = EmptySnapshot.views.website_summary
          /\ editor_events = <<>> => stats.editor = EmptySnapshot.editor
          /\ (/\ window_events = <<>>
              /\ afk_events = <<>>
              /\ browser_events = <<>>
              /\ editor_events = <<>>) => stats = EmptySnapshot
    /\ (Compared /\ stats = EmptySnapshot /\ previous_period = EmptySnapshot) =>
          /\ SameWithoutPercent(comparison.total_hours)
          /\ SameWithoutPercent(comparison.not_afk_hours)
          /\ SameWithoutPercent(comparison.editor_hours)
          /\ SameWithoutPercent(comparison.browser_hours)
          /\ SameWithoutPercent(comparison.activity_rate)
          /\ comparison.top_app_changes = <<>>
          /\ comparison.total_switches = None

\* C19 witness: two periods without any event have been compared.
C19_Witness ==
    /\ Compared
    /\ window_events = <<>>
    /\ afk_events = <<>>
    /\ browser_events = <<>>
    /\ editor_events = <<>>
    /\ stats = EmptySnapshot
    /\ previous_period = EmptySnapshot
    /\ comparison.activity_rate.direction = "same"

\* the aggregated seconds of an application, and the position of its first
\* event among the filtered window events
SecondsOf(app) == Lookup(app_times, app)

FirstSeen(app) ==
    CHOOSE i \in 1..Len(filtered_window) :
        /\ AppOf(filtered_window[i]) = app
        /\ \A j \in 1..(i - 1) : AppOf(filtered_window[j]) # app

\* C20: by_app holds at most 10 applications (all of them when there are
\* no more than 10), each with its seconds in hours, ordered by
\* non-increasing aggregated seconds; applications of equal seconds stand in
\* the order of their first event among the filtered window events; no
\* application outside the list has strictly more seconds than one inside
\* it, and one outside with the same seconds as one inside was met later.
C20_TopAppsStable ==
    Done =>
        LET L == stats.by_app
            n == Len(L)
        IN /\ n <= MaxByApp
           /\ n = (IF Len(app_times) < MaxByApp THEN Len(app_times) ELSE MaxByApp)
           /\ \A i \in 1..n :
                 /\ HasKey(app_times, L[i][1])
                 /\ L[i][2] = seconds_to_hours(SecondsOf(L[i][1]))
           /\ \A i \in 1..n : \A j \in (i + 1)..n :
                 /\ L[i][1] # L[j][1]
                 /\ SecondsOf(L[i][1]) >= SecondsOf(L[j][1])
                 /\ SecondsOf(L[i][1]) = SecondsOf(L[j][1])
                       => FirstSeen(L[i][1]) < FirstSeen(L[j][1])
           /\ \A app \in AppsOf(app_times) \ AppsOf(L) : \A i \in 1..n :
                 /\ SecondsOf(app) <= SecondsOf(L[i][1])
                 /\ SecondsOf(app) = SecondsOf(L[i][1])
                       => FirstSeen(app) > FirstSeen(L[i][1])

\* C20 witness: eleven applications; the first one met has the fewest
\* seconds and is the one left out, the others tie and the list starts with
\* the second one met.
C20_Witness ==
    /\ Done
    /\ Len(app_times) = MaxByApp + 1
    /\ Len(stats.by_app) = MaxByApp
    /\ app_times[1][1] \notin AppsOf(stats.by_app)
    /\ stats.by_app[1][2] = stats.by_app[2][2]
    /\ stats.by_app[1][1] = app_times[2][1]

---------------------------------------------------------------------------
(* Properties of the hourly switches (SpecHourly)                          *)

\* the largest count of a list of hour lines, 0 for none
LargestCount(lines) ==
    IF lines = <<>> THEN 0
    ELSE CHOOSE m \in {lines[i].count : i \in 1..Len(lines)} :
             \A i \in 1..Len(lines) : lines[i].count <= m

\* C21: in the hourly-switches view an hour line carries the
\* high-switching marker if and only if its count equals the maximum count
\* over all hours and that maximum is >= 5; when several hours tie for the
\* maximum every one of them is marked; hour lines appear in ascending hour
\* order, one per hour that has at least one switch.
C21_MarkerIffBusiestHour ==
    Done =>
        LET w == Walked
            lines == hourly_view.lines
            largest == LargestCount(lines)
        IN /\ \A i \in 1..Len(lines) :
                 lines[i].highlight
                     <=> (lines[i].count = largest /\ largest >= HighSwitchCount)
           /\ \A i \in 1..Len(lines) : \A j \in (i + 1)..Len(lines) :
                 lines[i].hour < lines[j].hour
           /\ {lines[i].hour : i \in 1..Len(lines)}
                = {h \in 0..23 : SwitchesAt(w, h) # {}}
           /\ \A i \in 1..Len(lines) : lines[i].count >= 1

\* C21 witness: five switches between 23:00 and 24:00 and five between
\* 00:00 and 01:00 of the next day: both lines are marked, and the line of
\* hour 0 stands before the line of hour 23.
C21_Witness ==
    /\ Done
    /\ hourly_view.lines
         = << [hour |-> 0, count |-> 5, highlight |-> TRUE],
              [hour |-> 23, count |-> 5, highlight |-> TRUE] >>

---------------------------------------------------------------------------
(* Properties of categorize_app (SpecAgg)                                  *)

\* the pattern occurs in the application name when both are lowered
OccursIgnoringCase(pattern, app_name) == Contains(Lower(pattern), Lower(app_name))

\* C22: categorize_app returns the first category, in insertion order of
\* the category mapping, that has a pattern occurring as a case-insensitive
\* substring of the application name, and returns "other" when no pattern
\* of any category matches.
C22_FirstMatchingCategory ==
    Done =>
        \A i \in 1..Len(app_times) :
            LET app_name == app_times[i][1]
                category == categorize_app(categories, app_name)
                matching == { k \in 1..Len(categories) :
                                \E j \in 1..Len(categories[k][2]) :
                                    OccursIgnoringCase(categories[k][2][j], app_name) }
            IN /\ matching = {} => category = "other"
               /\ matching # {} =>
                     \E k \in matching :
                         /\ category = categories[k][1]
                         /\ \A m \in matching : k <= m
               /\ HasKey(category_times, category)

\* C22 witness: VSCode matches "vs" of the first category, though only when
\* case is ignored, and "Code" of the second, and is put in the first; an
\* application that matches nothing is put in "other".
C22_Witness ==
    /\ Done
    /\ \E i \in 1..Len(app_times) :
          /\ app_times[i][1] = VSCode
          /\ Cardinality(MatchingCategories(VSCode)) = 2
          /\ ~Contains(categories[1][2][1], VSCode)
          /\ categorize_app(categories, VSCode) = categories[1][1]
    /\ \E i \in 1..Len(app_times) :
          /\ app_times[i][1] = Unknown
          /\ categorize_app(categories, Unknown) = "other"
    /\ HasKey(category_times, categories[1][1])

---------------------------------------------------------------------------
(* Properties of the sessions (SpecSession)                                *)

\* a split of the walked events 1..n into runs of consecutive events is
\* given by the set of the positions that start a run
KthStart(starts, k) ==
    CHOOSE i \in starts : Cardinality({j \in starts : j < i}) = k - 1

RunEnd(starts, k, n) ==
    IF k < Cardinality(starts) THEN KthStart(starts, k + 1) - 1 ELSE n

LargestOf(numbers) == CHOOSE m \in numbers : \A x \in numbers : x <= m

\* session s is the merge of the walked events w[first..last]
IsMergeOf(s, w, first, last) ==
    /\ s.start = StartOf(w[first])
    /\ s.end = LargestOf({EndOf(w[i]) : i \in first..last})
    /\ s.duration = SumSeq(Durations(SubSeq(w, first, last)))
    /\ \A i \in first..last : AppOf(w[i]) = s.app

IsLongSession(s) == s.duration >= min_session_minutes * 60

\* C23: every session built by build_session_view has start equal to the
\* start of its first merged event, end equal to the maximum end over all
\* its merged events, and duration equal to the sum of its merged events'
\* durations (which may exceed end - start when events overlap); the
\* minimum-duration filter compares that accumulated duration, not the
\* span: the lines of the view are those of the sessions whose duration is
\* at least min_session_minutes, in order.
C23_SessionFields ==
    Done =>
        LET w == Walked
            n == Len(w)
            long == SelectSeq(sessions, IsLongSession)
        IN /\ n = 0 => sessions = <<>>
           /\ n > 0 =>
                 \E cuts \in SUBSET (2..n) :
                     LET starts == {1} \cup cuts
                     IN /\ Len(sessions) = Cardinality(starts)
                        /\ \A k \in 1..Len(sessions) :
                              IsMergeOf(sessions[k], w, KthStart(starts, k),
                                        RunEnd(starts, k, n))
           /\ sessions_view.lines = [k \in 1..Len(long) |-> SessionLine(long[k])]
           /\ \A k \in 1..Len(sessions_view.lines) :
                 sessions_view.lines[k].duration_min >= min_session_minutes

\* C23 witness: two five-minute events that start together are one session
\* of 600 s spanning 300 s, which passes the ten-minute filter.
C23_Witness ==
    /\ Done
    /\ Len(Walked) = 2
    /\ Len(sessions) = 1
    /\ sessions[1].duration = 600
    /\ sessions[1].end - sessions[1].start = 300
    /\ Len(sessions_view.lines) = 1
    /\ sessions_view.lines[1].duration_min = 10


\* the positions of the filtered window events that get a timeline line
Qualifying ==
    { i \in 1..Len(filtered_window) :
        /\ filtered_window[i].duration >= min_duration_seconds
        /\ Parses(filtered_window[i]) }

\* event i stands before event j in the order of the raw timestamp strings,
\* events of equal strings in input order
StandsBefore(i, j) ==
    \/ RawLess(filtered_window[i].timestamp, filtered_window[j].timestamp)
    \/ /\ ~RawLess(filtered_window[j].timestamp, filtered_window[i].timestamp)
       /\ i < j

\* the line of event i is the one after the lines of the qualifying events
\* that stand before it
LineOf(i) == timeline_view.lines[1 + Cardinality({j \in Qualifying : StandsBefore(j, i)})]

\* C24: build_timeline_view emits exactly one line for each window event
\* whose duration is >= min_duration_seconds and whose timestamp parses, in
\* ascending order of the raw timestamp string (input order preserved among
\* equal strings); events below the minimum or with unparsable timestamps
\* produce no line, and the sentinel is returned when the input is empty or
\* no event survives.
C24_OneLinePerQualifyingEvent ==
    Done =>
        /\ Len(timeline_view.lines) = Cardinality(Qualifying)
        /\ \A i \in Qualifying :
              /\ LineOf(i).start = HHMM(StartOf(filtered_window[i]))
              /\ LineOf(i).end = HHMM(EndOf(filtered_window[i]))
              /\ LineOf(i).app = AppOf(filtered_window[i])
              /\ LineOf(i).duration_str = DurationStr(filtered_window[i].duration)
        /\ filtered_window = <<>> => timeline_view.sentinel = Some(NoAppRecords)
        /\ (filtered_window # <<>> /\ Qualifying = {}) =>
              timeline_view.sentinel = Some(NoQualifyingRecords)
        /\ Qualifying # {} => timeline_view.sentinel = None
        /\ IsSentinelText(stats.views.timeline) <=> Qualifying = {}

\* C24 witness: an event of exactly one minute at 09:00, then one stamped
\* "08:08:00+00:00" (09:08 local time), then one of half a minute: two
\* lines, the one of 09:08 first because its raw string is the smaller.
C24_Witness ==
    /\ Done
    /\ Len(filtered_window) = 3
    /\ filtered_window[1].timestamp = Naive(HMS(9, 0, 0))
    /\ filtered_window[1].duration = min_duration_seconds
    /\ filtered_window[2].timestamp = Utc(HMS(8, 8, 0))
    /\ filtered_window[3].duration < min_duration_seconds
    /\ Len(timeline_view.lines) = 2
    /\ timeline_view.lines[1].start = <<9, 8>>
    /\ timeline_view.lines[2].start = <<9, 0>>
    /\ timeline_view.lines[2].duration_str = [n |-> 1, unit |-> "min"]

---------------------------------------------------------------------------
(* Properties of _count_total_switches (SpecStored)                        *)

\* the view is missing, empty or a sentinel
NoHourLines(text) == text = <<>> \/ IsSentinelText(text)

\* c is what _count_total_switches returns for the text, as claimed
CountsAsClaimed(text, c) ==
    LET total == SumParsedCounts(Split(text, LF))
    IN /\ NoHourLines(text) => c = None
       /\ c = None <=> (NoHourLines(text) \/ total = 0)
       /\ c # None => Get(c) = total /\ total > 0
       /\ text = MixedText => c = Some(5 + 0 + 0 + 2)
       /\ text \in {<<Ci>>, <<"a", ":", "x", Ci>>, <<"a", ":", "5">>,
                    <<"a", ":", "0", Ci>>} => c = None

\* C25: _count_total_switches never raises on any view text: it returns
\* None when the view is missing, empty or a sentinel or when the parsed
\* total is 0; a line that fails to parse contributes 0 without aborting;
\* compare_stats includes the total_switches key only when both periods
\* yield a non-None total.
C25_SwitchCountNeverRaises ==
    Compared =>
        /\ SwitchCountError(stats) = None
        /\ SwitchCountError(previous_period) = None
        /\ CountsAsClaimed(stats.views.hourly_switches, current_switches)
        /\ CountsAsClaimed(previous_period.views.hourly_switches, previous_switches)
        /\ comparison.total_switches # None
             <=> (current_switches # None /\ previous_switches # None)
        /\ comparison.total_switches # None =>
              /\ Get(comparison.total_switches).current = 10 * Get(current_switches)
              /\ Get(comparison.total_switches).previous = 10 * Get(previous_switches)

\* C25 witness: a text with a line that has no colon and a line that has no
\* number counts 7 and is compared with a text that counts 5.
C25_Witness ==
    /\ Compared
    /\ stats.views.hourly_switches = MixedText
    /\ previous_period.views.hourly_switches = FiveText
    /\ current_switches = Some(7)
    /\ previous_switches = Some(5)
    /\ comparison.total_switches # None
    /\ Get(comparison.total_switches).direction = "up"

---------------------------------------------------------------------------
(* Properties of repeated calls and of the filter's output (SpecRepeat)    *)

Again == pc = "again"

\* the snapshot of an isolated call on the arguments as they are now
IsolatedCall ==
    process(RawData(window_events, afk_events, browser_events, editor_events),
            categories, work_domains)

---------------------------------------------------------------------------
(* Properties of the filter without an active interval (SpecFilter)        *)

\* the away entry gives no active interval: it is afk, or its duration is
\* not positive, or its timestamp does not parse
GivesNoInterval(e) == ~IsNotAfk(e) \/ e.duration <= 0 \/ ~Parses(e)

\* C27: if the away-event list is non-empty but yields no active interval
\* (every entry is afk, or has duration <= 0 or an unparsable timestamp),
\* filter_events returns all input events unchanged, events with unparsable
\* timestamps included, exactly as for an empty away list; events are
\* suppressed only when at least one active interval exists.
C27_NoIntervalIsIdentity ==
    Done =>
        /\ (/\ afk_events # <<>>
            /\ \A i \in 1..Len(afk_events) : GivesNoInterval(afk_events[i]))
              => filtered_window = window_events
        /\ filtered_window # window_events =>
              \E i \in 1..Len(afk_events) : ~GivesNoInterval(afk_events[i])

\* C27 witness: an afk entry and a not-afk entry of duration 0 give no
\* interval; an event with a malformed timestamp and one that starts after
\* both entries are returned.
C27_Witness ==
    /\ Done
    /\ Len(afk_events) = 2
    /\ \E i \in 1..2 : ~IsNotAfk(afk_events[i])
    /\ \E i \in 1..2 :
          IsNotAfk(afk_events[i]) /\ Parses(afk_events[i]) /\ afk_events[i].duration = 0
    /\ Len(window_events) = 2
    /\ \E i \in 1..2 : ~Parses(window_events[i])
    /\ \E i \in 1..2 : Parses(window_events[i]) /\ StartOf(window_events[i]) >= 200
    /\ filtered_window = window_events


\* s is t with some of its entries left out
RECURSIVE IsSubsequence(_, _)
IsSubsequence(s, t) ==
    IF s = <<>> THEN TRUE
    ELSE IF t = <<>> THEN FALSE
    ELSE IF Head(s) = Head(t) THEN IsSubsequence(Tail(s), Tail(t))
    ELSE IsSubsequence(s, Tail(t))

\* the event overlaps the interval without lying inside it
PartlyOverlaps(event, iv) == Overlaps(event, iv) /\ ~Inside(event, iv)

\* C28: the output of filter_events is an order-preserving subsequence of
\* the input whose records are the unmodified input records: an event that
\* only partially overlaps an active interval is kept whole with its full
\* duration, never clipped to the interval (so the summed duration of the
\* filtered window events may exceed get_total_active_seconds).
C28_OutputIsSubsequence ==
    (Done \/ Again) =>
        /\ IsSubsequence(filtered_window, window_events)
        /\ IsSubsequence(filtered_browser, browser_events)
        /\ IsSubsequence(filtered_editor, editor_events)
        /\ \A i \in 1..Len(window_events) :
              (/\ Parses(window_events[i])
               /\ \E iv \in ActiveIntervals : PartlyOverlaps(window_events[i], iv))
              => \E k \in 1..Len(filtered_window) :
                     /\ filtered_window[k] = window_events[i]
                     /\ filtered_window[k].duration = window_events[i].duration

\* C28 witness: the active interval is [100, 200); the events of [50, 150)
\* and [150, 250) are kept with 100 s each and the event of [250, 350) is
\* dropped: 200 s of filtered events against 100 active seconds.
C28_Witness ==
    /\ Done
    /\ ActiveIntervals = {<<100, 200>>}
    /\ Len(window_events) = 3
    /\ Len(filtered_window) = 2
    /\ \A k \in 1..2 : PartlyOverlaps(filtered_window[k], <<100, 200>>)
    /\ SumSeq(Durations(filtered_window)) = 200
    /\ not_afk_seconds = 100

---------------------------------------------------------------------------
(* Properties of the merge into sessions (SpecSession)                     *)

\* C29: in build_session_view, before the minimum-duration filter, every
\* window event with a parsable timestamp is merged into exactly one
\* session: the sessions are runs of consecutive walked events that cover
\* them all, the sum of the sessions' accumulated durations is the sum of
\* those events' durations, there are at most as many sessions as such
\* events, and the sessions stand in the order of their first events.
C29_EveryEventInOneSession ==
    Done =>
        LET w == Walked
            n == Len(w)
        IN /\ SumSeq(Durations(sessions)) = SumSeq(Durations(w))
           /\ Len(sessions) <= n
           /\ n > 0 => Len(sessions) >= 1
           /\ n > 0 =>
                 \E cuts \in SUBSET (2..n) :
                     LET starts == {1} \cup cuts
                     IN /\ Len(sessions) = Cardinality(starts)
                        /\ \A k \in 1..Len(sessions) :
                              LET first == KthStart(starts, k)
                                  last == RunEnd(starts, k, n)
                              IN /\ sessions[k].start = StartOf(w[first])
                                 /\ sessions[k].app = AppOf(w[first])
                                 /\ sessions[k].duration
                                      = SumSeq(Durations(SubSeq(w, first, last)))

\* C29 witness: of three events one has a malformed timestamp; the event
\* stamped "08:08:00+00:00" is walked first and starts the first session at
\* 09:08, the Chrome event of 09:00 the second.
C29_Witness ==
    /\ Done
    /\ Len(filtered_window) = 3
    /\ Len(Walked) = 2
    /\ Len(sessions) = 2
    /\ sessions[1].start = HMS(9, 8, 0)
    /\ sessions[2].start = HMS(9, 0, 0)
    /\ sessions[1].duration + sessions[2].duration = SumSeq(Durations(Walked))

\* the positions of the walk whose event differs in app from the one before
AppChanges_in_walk(w) == { i \in 2..Len(w) : AppOf(w[i]) # AppOf(w[i - 1]) }

\* C30: sessions are maximal with respect to adjacency: two consecutive
\* sessions (before the minimum-duration filter) either have different
\* application names or the later one starts more than merge_gap_seconds
\* after the earlier one's end; same-app events separated by an event of
\* another app are never merged across it, even when their gap is within
\* the tolerance: every change of application in the walk starts a session.
C30_SessionsAreMaximal ==
    Done =>
        LET w == Walked
        IN /\ \A k \in 1..(Len(sessions) - 1) :
                 \/ sessions[k].app # sessions[k + 1].app
                 \/ sessions[k + 1].start - sessions[k].end > merge_gap_seconds
           /\ w # <<>> => Len(sessions) >= 1 + Cardinality(AppChanges_in_walk(w))
           /\ \A i \in AppChanges_in_walk(w) :
                 \E k \in 2..Len(sessions) :
                     /\ sessions[k].start = StartOf(w[i])
                     /\ sessions[k].app = AppOf(w[i])

\* C30 witness: VSCode until 09:05, Chrome at 09:07, VSCode at 09:07: the
\* second VSCode event starts 120 s after the first one's end, within the
\* tolerance, and yet there are three sessions.
C30_Witness ==
    /\ Done
    /\ Len(sessions) = 3
    /\ sessions[1].app = sessions[3].app
    /\ sessions[2].app # sessions[1].app
    /\ sessions[3].start - sessions[1].end = merge_gap_seconds

============================================================================
